---- MODULE Spec2Model ----
(***************************************************************************)
(* Model of the flow-advection engine of the LCS library                   *)
(* (src/src/flow.hpp, src/src/field.hpp, src/src/basic.hpp).               *)
(*                                                                         *)
(* Numbers.  The numeric type T (double in the demos) is modelled as a     *)
(* fixed-point number: the integer v stands for the real v / Scale.        *)
(* Sums and differences are exact, products and quotients round toward     *)
(* zero (Mul, Div).  static_cast<int> is truncation toward zero (ToInt).   *)
(*                                                                         *)
(* Objects.  A Field is a record [data, time]; data maps a cell <<i, j>>   *)
(* to a pair <<x, y>>.  A Position adds its axes (xrange, yrange), its     *)
(* out-of-bound tensor (NULL while InitializeOutOfBoundTensor has not been *)
(* called) and its bounding box.  A null pointer is NULL.                  *)
(***************************************************************************)
EXTENDS Integers, Sequences, FiniteSets, TLC

\* ------------------------------------------------------------------ bounds
\* Fixed-point resolution: Scale units make 1.0.
Scale == 10
\* Grid of the calculation (constructor arguments nx, ny).
nx == 2
ny == 2
\* Grid of the input data (constructor arguments data_nx, data_ny).
data_nx == 2
data_ny == 2
\* Snapshot files exist for the integer times 0 .. MaxFile.
MaxFile == 3
\* The anchor search loop is followed while the cursor is within MaxTime whole
\* time units of zero.
MaxTime == 6

NULL == [null |-> TRUE]
Forward == "Forward"
Backward == "Backward"

\* ------------------------------------------------------------ arithmetic
Abs(a) == IF a < 0 THEN -a ELSE a

\* Quotient rounded toward zero (b # 0).
TDiv(a, b) ==
    LET q == Abs(a) \div Abs(b)
    IN  IF (a < 0) = (b < 0) THEN q ELSE -q

\* Product and quotient of two values of type T.
Mul(a, b) == TDiv(a * b, Scale)
Div(a, b) == TDiv(a * Scale, b)

\* static_cast<int>(t)
ToInt(t) == TDiv(t, Scale)

\* The value of type T of an integer literal.
Lit(n) == n * Scale

\* The significant bits a value of type T keeps, and how many binary orders
\* of magnitude above them the model follows.
MantBits == 10
ExpRange == 8

\* A number as a value of type T: rounded to MantBits significant bits, to
\* the nearest, a tie to the even one.
Fl(v) ==
    LET m == Abs(v)
        e == CHOOSE k \in 0 .. ExpRange :
                 /\ m < 2 ^ (MantBits + k)
                 /\ k = 0 \/ m >= 2 ^ (MantBits + k - 1)
        step == 2 ^ e
        q == m \div step
        r == m % step
        n == IF 2 * r > step \/ (2 * r = step /\ q % 2 = 1)
             THEN (q + 1) * step
             ELSE q * step
    IN  IF v < 0 THEN 0 - n ELSE n

\* a + b and a - b on T.
Add(a, b) == Fl(a + b)
Sub(a, b) == Fl(a - b)

\* ------------------------------------------------------------ basic.hpp
Cells(n, m) == (0 .. n - 1) \X (0 .. m - 1)

\* Tensor<Vector<T,2>,2>(n, m): every element value-initialised.
ZeroTensor(n, m) == [c \in Cells(n, m) |-> <<0, 0>>]

\* Tensor<bool,2>(n, m): every flag false.
FalseTensor(n, m) == [c \in Cells(n, m) |-> FALSE]

\* T interpolate(x1, x2, y1, y2, xm)
interpolate(x1, x2, y1, y2, xm) ==
    Add(y1, Fl(Div(Fl(Mul(xm - x1, Sub(y2, y1))), x2 - x1)))

\* operator*(c, Vector), operator+/-(Vector, Vector)
VecScale(c, a) == <<Fl(Mul(c, a[1])), Fl(Mul(c, a[2]))>>
VecAdd(a, b) == <<Add(a[1], b[1]), Add(a[2], b[2])>>
VecSub(a, b) == <<Sub(a[1], b[1]), Sub(a[2], b[2])>>

\* The interpolation taking the second field when the times are equal.
interpolateFieldSecond(x1, x2, f1, f2, xm) ==
    IF x1 # x2
    THEN LET r == Div(xm - x1, x2 - x1)
         IN  [c \in DOMAIN f1.data |->
                 VecAdd(f1.data[c], VecScale(r, VecSub(f2.data[c], f1.data[c])))]
    ELSE f2.data

\* The interpolation measuring xm from x2.
interpolateFieldFromEnd(x1, x2, f1, f2, xm) ==
    IF x1 # x2
    THEN LET r == Div(x2 - xm, x2 - x1)
         IN  [c \in DOMAIN f1.data |->
                 VecAdd(f1.data[c], VecScale(r, VecSub(f2.data[c], f1.data[c])))]
    ELSE f1.data

\* void interpolate(x1, x2, f1, f2, xm, result): the data stored in result.
interpolateField(x1, x2, f1, f2, xm) ==
    IF x1 # x2
    THEN LET r == Div(xm - x1, x2 - x1)
         IN  [c \in DOMAIN f1.data |->
                 VecAdd(f1.data[c], VecScale(r, VecSub(f2.data[c], f1.data[c])))]
    ELSE f1.data


\* ------------------------------------------------------------ field.hpp
\* Field(nx, ny) and Position(nx, ny) right after construction.
NewPosition(n, m) ==
    [data |-> ZeroTensor(n, m), time |-> 0, xrange |-> <<>>, yrange |-> <<>>,
     out_of_bound |-> NULL, bound |-> NULL]

\* Velocity(nx, ny, pos) right after construction.
NewVelocity(n, m) == [data |-> ZeroTensor(n, m), time |-> 0]

\* The axis std::generate fills in Position::SetAll(xmin, xmax, ymin, ymax):
\* entry i (from 0) is lo + i * (hi - lo) / (n - 1).
UniformAxis(lo, hi, n) == [k \in 1 .. n |-> lo + TDiv((k - 1) * (hi - lo), n - 1)]

\* Position::SetAll(xrange, yrange), sizes matching.
SetAllRanges(pos, xrange, yrange) ==
    [pos EXCEPT !.data = [c \in DOMAIN pos.data |->
                             <<xrange[c[1] + 1], yrange[c[2] + 1]>>],
                !.xrange = xrange,
                !.yrange = yrange]

\* Position::SetAll(xmin, xmax, ymin, ymax) on an n x m Position.
SetAllBox(pos, n, m, box) ==
    SetAllRanges(pos, UniformAxis(box[1], box[2], n), UniformAxis(box[3], box[4], m))

\* The bounding-box test of Position::Update.
OutsideBound(p, bound) ==
    \/ p[1] < bound[1]
    \/ p[1] > bound[2]
    \/ p[2] < bound[3]
    \/ p[2] > bound[4]

\* Update moving the x coordinate only.
DisplacedMutant(p, v, delta) == <<p[1] + Mul(v[1], delta), p[2]>>

\* The coordinates Position::Update gives one cell.
Displaced(p, v, delta) == <<p[1] + Mul(v[1], delta), p[2] + Mul(v[2], delta)>>

\* Update leaving the cells that are flagged where they are.
UpdateSkipFlagged(pos, vel, delta) ==
    LET moved == [c \in DOMAIN pos.data |->
                     IF pos.out_of_bound # NULL /\ pos.out_of_bound[c]
                     THEN pos.data[c]
                     ELSE Displaced(pos.data[c], vel.data[c], delta)]
    IN  [pos EXCEPT
            !.data = moved,
            !.out_of_bound =
                IF pos.out_of_bound # NULL
                THEN [c \in DOMAIN pos.data |->
                         IF OutsideBound(moved[c], pos.bound)
                         THEN TRUE
                         ELSE pos.out_of_bound[c]]
                ELSE NULL]

\* Update writing the result of the bounding-box test into the flag.
UpdateMutant(pos, vel, delta) ==
    LET moved == [c \in DOMAIN pos.data |-> Displaced(pos.data[c], vel.data[c], delta)]
    IN  [pos EXCEPT
            !.data = moved,
            !.out_of_bound =
                IF pos.out_of_bound # NULL
                THEN [c \in DOMAIN pos.data |-> OutsideBound(moved[c], pos.bound)]
                ELSE NULL]

\* Position::Update(vel, delta): the Position afterwards.
Update(pos, vel, delta) ==
    LET moved == [c \in DOMAIN pos.data |-> Displaced(pos.data[c], vel.data[c], delta)]
    IN  [pos EXCEPT
            !.data = moved,
            !.out_of_bound =
                IF pos.out_of_bound # NULL
                THEN [c \in DOMAIN pos.data |->
                         IF OutsideBound(moved[c], pos.bound)
                         THEN TRUE
                         ELSE pos.out_of_bound[c]]
                ELSE NULL]

\* Tensor<bool> keeps its flags in a std::vector<bool>, which packs them into
\* words of WordBits bits; flag (i, j) is bit i * ny + j.  Writing one flag
\* reads its word, sets the bit and writes the word back.
WordBits == 64
SameWord(c, d) == (c[1] * ny + c[2]) \div WordBits = (d[1] * ny + d[2]) \div WordBits

\* The cells whose flag an Update turns from false to true.
NewlyOutside(pos, vel, delta) ==
    IF pos.out_of_bound = NULL
    THEN {}
    ELSE {c \in DOMAIN pos.data :
             /\ ~pos.out_of_bound[c]
             /\ OutsideBound(Displaced(pos.data[c], vel.data[c], delta), pos.bound)}

\* The sets of flags that the unsynchronized writes of the parallel rows can
\* lose among those an Update sets: none; or some but not all of them, each
\* one overwritten by the write of a flag of another row in the same word.
Losable(set) ==
    {lost \in SUBSET set :
        \/ lost = {}
        \/ /\ lost # set
           /\ \A c \in lost : \E d \in set : d[1] # c[1] /\ SameWord(c, d)}

\* The Positions the row-parallel Position::Update(vel, delta) can leave: the
\* sequential one, and those with flags lost.
UpdateOutcomes(pos, vel, delta) ==
    IF pos.out_of_bound = NULL
    THEN {Update(pos, vel, delta)}
    ELSE {[Update(pos, vel, delta) EXCEPT
              !.out_of_bound = [c \in DOMAIN pos.data |->
                                   IF c \in lost THEN FALSE ELSE @[c]]] :
             lost \in Losable(NewlyOutside(pos, vel, delta))}

\* IsOutOfBound with the other default value.
IsOutOfBoundMutant(pos, c) ==
    IF pos.out_of_bound # NULL THEN pos.out_of_bound[c] ELSE TRUE

\* Position::IsOutOfBound(i, j)
IsOutOfBound(pos, c) ==
    IF pos.out_of_bound # NULL THEN pos.out_of_bound[c] ELSE FALSE

\* std::upper_bound on an increasing axis: the number of the first entry
\* (from 0) that is greater than v, Len(axis) when there is none.
UpperBound(axis, v) ==
    CHOOSE k \in 0 .. Len(axis) :
        /\ \A q \in 1 .. k : axis[q] <= v
        /\ k < Len(axis) => axis[k + 1] > v

\* i_next without the step back from end().
NextIndexUnclamped(axis, v) ==
    LET k == UpperBound(axis, v)
    IN  IF k = 0 THEN k + 1 ELSE k

\* i_next of Velocity::InterpolateFrom: the upper bound, stepped back from
\* end() and forward from begin().
NextIndex(axis, v) ==
    LET k  == UpperBound(axis, v)
        k1 == IF k = Len(axis) THEN k - 1 ELSE k
    IN  IF k1 = 0 THEN k1 + 1 ELSE k1

\* The value computed with the two mixed corners of the cell exchanged.
BilinearExchanged(ref, ref_x, ref_y, p) ==
    LET i_next == NextIndex(ref_x, p[1])
        i_pre  == i_next - 1
        j_next == NextIndex(ref_y, p[2])
        j_pre  == j_next - 1
        x1 == ref_x[i_pre + 1]
        x2 == ref_x[i_next + 1]
        y1 == ref_y[j_pre + 1]
        y2 == ref_y[j_next + 1]
        v00 == ref[<<i_pre, j_pre>>]
        v01 == ref[<<i_next, j_pre>>]
        v10 == ref[<<i_pre, j_next>>]
        v11 == ref[<<i_next, j_next>>]
        vx1 == interpolate(x1, x2, v00[1], v10[1], p[1])
        vx2 == interpolate(x1, x2, v01[1], v11[1], p[1])
        vy1 == interpolate(x1, x2, v00[2], v10[2], p[1])
        vy2 == interpolate(x1, x2, v01[2], v11[2], p[1])
    IN  <<interpolate(y1, y2, vx1, vx2, p[2]), interpolate(y1, y2, vy1, vy2, p[2])>>

\* The value Velocity::InterpolateFrom computes for a target point p from the
\* reference data ref on the axes ref_x, ref_y.
Bilinear(ref, ref_x, ref_y, p) ==
    LET i_next == NextIndex(ref_x, p[1])
        i_pre  == i_next - 1
        j_next == NextIndex(ref_y, p[2])
        j_pre  == j_next - 1
        x1 == ref_x[i_pre + 1]
        x2 == ref_x[i_next + 1]
        y1 == ref_y[j_pre + 1]
        y2 == ref_y[j_next + 1]
        v00 == ref[<<i_pre, j_pre>>]
        v01 == ref[<<i_pre, j_next>>]
        v10 == ref[<<i_next, j_pre>>]
        v11 == ref[<<i_next, j_next>>]
        vx1 == interpolate(x1, x2, v00[1], v10[1], p[1])
        vx2 == interpolate(x1, x2, v01[1], v11[1], p[1])
        vy1 == interpolate(x1, x2, v00[2], v10[2], p[1])
        vy2 == interpolate(x1, x2, v01[2], v11[2], p[1])
    IN  <<interpolate(y1, y2, vx1, vx2, p[2]), interpolate(y1, y2, vy1, vy2, p[2])>>

\* InterpolateFrom without its look at the flags.
InterpolateFromAll(vel, pos, ref_vel, ref_pos) ==
    [c \in DOMAIN vel.data |->
        Bilinear(ref_vel.data, ref_pos.xrange, ref_pos.yrange, pos.data[c])]

\* Velocity::InterpolateFrom(ref_vel): the data of this Velocity afterwards.
\* pos is the Position of this Velocity, ref_pos the one of ref_vel.
InterpolateFrom(vel, pos, ref_vel, ref_pos) ==
    [c \in DOMAIN vel.data |->
        IF IsOutOfBound(pos, c)
        THEN vel.data[c]
        ELSE Bilinear(ref_vel.data, ref_pos.xrange, ref_pos.yrange, pos.data[c])]

\* ---------------------------------------------------------- environment
\* The snapshot files on disk, as discrete_double_gyre.cpp writes them: one
\* per integer time, named prefix + time + ".txt", holding the shape of the
\* data grid, the time and one velocity per data grid point.  There are the
\* demo's files double_gyre_0.txt .. double_gyre_20.txt and, without a
\* prefix, 0.txt .. MaxFile.txt.
FilePrefix == ""
DemoPrefix == "double_gyre_"
DemoLastFile == 20
FileVel(n) == [c \in Cells(data_nx, data_ny) |->
                  <<Scale + (4 * n) - (6 * c[1]), (4 * c[2]) - (2 * n)>>]
FileExists(name) ==
    /\ \/ name[1] = FilePrefix /\ name[2] \in 0 .. MaxFile
       \/ name[1] = DemoPrefix /\ name[2] \in 0 .. DemoLastFile
    /\ name[3] = ".txt"
FileContent(name) ==
    [nx |-> data_nx, ny |-> data_ny, time |-> Lit(name[2]), data |-> FileVel(name[2])]

\* The analytic velocity function Func of a ContinuousFlowField, (x, y, t) to
\* (vx, vy): a shear that changes with time.
Func(p, t) == <<p[2] - t, 0 - p[1]>>

\* The arguments the client passes to the setters.
DeltaValues == {Scale \div 2, Scale, (5 * Scale) \div 2}
DataDeltaValues == {Scale \div 2, Scale}
MaxStep == 7
StepValues == {0, 2, MaxStep}
InitialTimeValues == {0, Scale \div 2, Lit(MaxFile) - (Scale \div 2), Lit(MaxFile)}
DataTimeRanges ==
    {<<0, Lit(MaxFile)>>, <<Lit(MaxFile), 0>>, <<0, Lit(MaxFile) - (Scale \div 2)>>}
DataBox == <<0, Lit(2), 0, Lit(1)>>
InitialBoxes == {DataBox, <<0 - Lit(1), Lit(1), 0, Lit(1)>>}

\* -------------------------------------------------------------- flow.hpp
VARIABLES
    kind,                   \* "Discrete" or "Continuous": the class constructed
    direction_, delta_, step_, initial_time_, current_time_,
    initial_pos_, current_pos_,
    current_vel_,           \* for a ContinuousFlowField also current_continuous_vel_
    data_delta_, current_data_time_, begin_data_time_, end_data_time_,
    vel_file_name_prefix_, vel_file_name_suffix_,
    data_pos_, previous_data_vel_, next_data_vel_, current_data_vel_,
    pc,                     \* where the client and Run() are: "idle" while the
                            \* client configures, "done" once Run() has returned,
                            \* "failed" once it has thrown (or, the throw
                            \* leaving an OpenMP task, has ended the program)
    i,                      \* the loop counter of Run()
    tasks,                  \* the snapshot loading tasks that have finished
    run_t0,                 \* history: GetTime() when the last Run() began
    run_loaded,             \* history: a bracket was loaded in this Run()
    main,                   \* the client: 0 for any client, else the number of
                            \* the statement the demo's main() is at
    call,                   \* a call made on its own: its arguments, then also
                            \* its outcome; NULL when there is none
    ftle                    \* the FTLE object of the client, NULL before it is
                            \* constructed

ffVars == <<direction_, delta_, step_, initial_time_, current_time_,
            initial_pos_, current_pos_, current_vel_>>
dfVars == <<data_delta_, current_data_time_, begin_data_time_, end_data_time_,
            vel_file_name_prefix_, vel_file_name_suffix_,
            data_pos_, previous_data_vel_, next_data_vel_, current_data_vel_>>
runVars == <<pc, i, tasks, run_t0, run_loaded>>
auxVars == <<call, ftle>>
vars == <<kind, ffVars, dfVars, runVars, main, auxVars>>

Discrete == "Discrete"
Continuous == "Continuous"

\* FlowField(nx, ny), then DiscreteFlowField(nx, ny, data_nx, data_ny) or
\* ContinuousFlowField(nx, ny).
Constructed ==
    /\ direction_ = Forward
    /\ delta_ = 0
    /\ step_ = 0
    /\ initial_time_ = 0
    /\ current_time_ = 0
    /\ initial_pos_ = NewPosition(nx, ny)
    /\ current_pos_ = NewPosition(nx, ny)
    /\ current_vel_ = NULL
    /\ data_delta_ = 0
    /\ current_data_time_ = 0
    /\ begin_data_time_ = 0
    /\ end_data_time_ = 0
    /\ vel_file_name_prefix_ = ""
    /\ vel_file_name_suffix_ = ".txt"
    /\ data_pos_ = IF kind = Discrete THEN NewPosition(data_nx, data_ny) ELSE NULL
    /\ previous_data_vel_ = IF kind = Discrete THEN NewVelocity(data_nx, data_ny) ELSE NULL
    /\ next_data_vel_ = IF kind = Discrete THEN NewVelocity(data_nx, data_ny) ELSE NULL
    /\ current_data_vel_ = IF kind = Discrete THEN NewVelocity(data_nx, data_ny) ELSE NULL
    /\ pc = "idle"
    /\ i = 0
    /\ tasks = {}
    /\ run_t0 = 0
    /\ run_loaded = FALSE
    /\ ftle = NULL

\* Any client, with either kind of flow field.
Init ==
    /\ kind \in {Discrete, Continuous}
    /\ main = 0
    /\ call = NULL
    /\ Constructed

\* The client after a call has returned: any client stays any client, the
\* demo's main() goes on to its next statement.
AfterCall(m) == IF m = 0 THEN 0 ELSE m + 1

\* Field::UpdateTime(time) on a Velocity that may be null.
WithTime(field, time) == IF field = NULL THEN NULL ELSE [field EXCEPT !.time = time]

\* FlowField::SetDelta(delta); delta > 0 is asserted.
SetDelta(delta) ==
    /\ pc = "idle"
    /\ delta > 0
    /\ delta_' = delta
    /\ UNCHANGED <<kind, direction_, step_, initial_time_, current_time_,
                   initial_pos_, current_pos_, current_vel_, dfVars, runVars>>
    /\ main' = AfterCall(main)
    /\ UNCHANGED auxVars

\* FlowField::SetStep(step)
SetStep(step) ==
    /\ pc = "idle"
    /\ step_' = step
    /\ UNCHANGED <<kind, direction_, delta_, initial_time_, current_time_,
                   initial_pos_, current_pos_, current_vel_, dfVars, runVars>>
    /\ main' = AfterCall(main)
    /\ UNCHANGED auxVars

\* FlowField::SetInitialTime(time), with FlowField::UpdateTime(time)
SetInitialTime(time) ==
    /\ pc = "idle"
    /\ initial_time_' = time
    /\ initial_pos_' = [initial_pos_ EXCEPT !.time = time]
    /\ current_time_' = time
    /\ current_pos_' = [current_pos_ EXCEPT !.time = time]
    /\ current_vel_' = WithTime(current_vel_, time)
    /\ UNCHANGED <<kind, direction_, delta_, step_, dfVars, runVars>>
    /\ main' = AfterCall(main)
    /\ UNCHANGED auxVars

\* SetDataTimeRange without its switch on the direction.
DataTimeRangeMutant(direction, t1, t2) ==
    <<IF t2 >= t1 THEN t1 ELSE t2, t2>>

\* The <<begin_data_time_, end_data_time_>> that
\* DiscreteFlowField::SetDataTimeRange(t1, t2) stores under a direction.
DataTimeRange(direction, t1, t2) ==
    LET begin_time == IF t2 >= t1 THEN t1 ELSE t2
        end_time   == IF t2 >= t1 THEN t2 ELSE t2
    IN  IF direction = Forward
        THEN <<begin_time, end_time>>
        ELSE <<end_time, begin_time>>

\* DiscreteFlowField::SetDataTimeRange(t1, t2)
SetDataTimeRange(t1, t2) ==
    /\ pc = "idle"
    /\ kind = Discrete
    /\ begin_data_time_' = DataTimeRange(direction_, t1, t2)[1]
    /\ end_data_time_' = DataTimeRange(direction_, t1, t2)[2]
    /\ UNCHANGED <<kind, ffVars, data_delta_, current_data_time_,
                   vel_file_name_prefix_, vel_file_name_suffix_,
                   data_pos_, previous_data_vel_, next_data_vel_, current_data_vel_,
                   runVars>>
    /\ main' = AfterCall(main)
    /\ UNCHANGED auxVars

\* DiscreteFlowField::SetDataDelta(delta)
SetDataDelta(delta) ==
    /\ pc = "idle"
    /\ kind = Discrete
    /\ data_delta_' = delta
    /\ UNCHANGED <<kind, ffVars, current_data_time_, begin_data_time_, end_data_time_,
                   vel_file_name_prefix_, vel_file_name_suffix_,
                   data_pos_, previous_data_vel_, next_data_vel_, current_data_vel_,
                   runVars>>
    /\ main' = AfterCall(main)
    /\ UNCHANGED auxVars

\* DiscreteFlowField::SetDirection(direction) and
\* ContinuousFlowField::SetDirection(direction)
SetDirection(direction) ==
    /\ pc = "idle"
    /\ direction_' = direction
    /\ IF kind = Discrete
       THEN /\ begin_data_time_' =
                   DataTimeRange(direction, begin_data_time_, end_data_time_)[1]
            /\ end_data_time_' =
                   DataTimeRange(direction, begin_data_time_, end_data_time_)[2]
       ELSE UNCHANGED <<begin_data_time_, end_data_time_>>
    /\ UNCHANGED <<kind, delta_, step_, initial_time_, current_time_,
                   initial_pos_, current_pos_, current_vel_,
                   data_delta_, current_data_time_,
                   vel_file_name_prefix_, vel_file_name_suffix_,
                   data_pos_, previous_data_vel_, next_data_vel_, current_data_vel_,
                   runVars>>
    /\ main' = AfterCall(main)
    /\ UNCHANGED auxVars

\* DiscreteFlowField::SetVelocityFileNamePrefix(prefix)
SetVelocityFileNamePrefix(prefix) ==
    /\ pc = "idle"
    /\ kind = Discrete
    /\ vel_file_name_prefix_' = prefix
    /\ UNCHANGED <<kind, ffVars, data_delta_, current_data_time_,
                   begin_data_time_, end_data_time_, vel_file_name_suffix_,
                   data_pos_, previous_data_vel_, next_data_vel_, current_data_vel_,
                   runVars>>
    /\ main' = AfterCall(main)
    /\ UNCHANGED auxVars

\* InitialPosition().SetAll(xmin, xmax, ymin, ymax)
SetInitialPosition(box) ==
    /\ pc = "idle"
    /\ initial_pos_' = SetAllBox(initial_pos_, nx, ny, box)
    /\ UNCHANGED <<kind, direction_, delta_, step_, initial_time_, current_time_,
                   current_pos_, current_vel_, dfVars, runVars>>
    /\ main' = AfterCall(main)
    /\ UNCHANGED auxVars

\* DataPosition().SetAll(xmin, xmax, ymin, ymax)
SetDataPosition(box) ==
    /\ pc = "idle"
    /\ kind = Discrete
    /\ data_pos_' = SetAllBox(data_pos_, data_nx, data_ny, box)
    /\ UNCHANGED <<kind, ffVars, data_delta_, current_data_time_,
                   begin_data_time_, end_data_time_,
                   vel_file_name_prefix_, vel_file_name_suffix_,
                   previous_data_vel_, next_data_vel_, current_data_vel_, runVars>>
    /\ main' = AfterCall(main)
    /\ UNCHANGED auxVars

\* signed_data_delta of DiscreteFlowField::SetCurrentVelocity
SignedDataDelta == IF direction_ = Forward THEN data_delta_ ELSE 0 - data_delta_

\* The signed time step Run() passes to Position::Update.
SignedDelta == IF direction_ = Forward THEN delta_ ELSE 0 - delta_

\* The name built with the time rounded to the nearest integer.
FileNameRounded(t) ==
    <<vel_file_name_prefix_, TDiv(2 * t + Scale, 2 * Scale), vel_file_name_suffix_>>

\* The name ReadDataVelocityFromFile builds for a buffer whose time is t.
FileName(t) == <<vel_file_name_prefix_, ToInt(t), vel_file_name_suffix_>>

\* The copy that keeps the flags of an earlier run.
DiscreteCopyKeepFlags(cur, init, dpos) ==
    [cur EXCEPT !.data = init.data,
                !.xrange = init.xrange,
                !.yrange = init.yrange,
                !.time = init.time,
                !.out_of_bound = IF cur.out_of_bound = NULL
                                 THEN FalseTensor(nx, ny)
                                 ELSE cur.out_of_bound,
                !.bound = <<dpos.data[<<0, 0>>][1],
                            dpos.data[<<data_nx - 1, data_ny - 1>>][1],
                            dpos.data[<<0, 0>>][2],
                            dpos.data[<<data_nx - 1, data_ny - 1>>][2]>>]

\* The Position DiscreteFlowField::CopyInitialPositionToCurrentPosition makes
\* of the current one.
DiscreteCopy(cur, init, dpos) ==
    [cur EXCEPT !.data = init.data,
                !.xrange = init.xrange,
                !.yrange = init.yrange,
                !.time = init.time,
                !.out_of_bound = FalseTensor(nx, ny),
                !.bound = <<dpos.data[<<0, 0>>][1],
                            dpos.data[<<data_nx - 1, data_ny - 1>>][1],
                            dpos.data[<<0, 0>>][2],
                            dpos.data[<<data_nx - 1, data_ny - 1>>][2]>>]

\* The Position ContinuousFlowField::CopyInitialPositionToCurrentPosition
\* makes of the current one.
ContinuousCopy(cur, init) ==
    [cur EXCEPT !.data = init.data,
                !.xrange = init.xrange,
                !.yrange = init.yrange,
                !.time = init.time]

\* What the client has done before it calls Run(): a positive time step, the
\* initial positions and, for discrete data, the data interval and the data
\* grid.
Configured ==
    /\ delta_ > 0
    /\ initial_pos_.xrange # <<>>
    /\ kind = Discrete => (data_delta_ > 0 /\ data_pos_.xrange # <<>>)

\* FlowField::Run() up to its loop: CopyInitialPositionToCurrentPosition().
RunBegin ==
    /\ pc = "idle"
    /\ Configured
    /\ IF kind = Discrete
       THEN /\ current_pos_' = DiscreteCopy(current_pos_, initial_pos_, data_pos_)
            /\ current_vel_' = NewVelocity(nx, ny)
       ELSE /\ current_pos_' = ContinuousCopy(current_pos_, initial_pos_)
            /\ UNCHANGED current_vel_
    /\ i' = 0
    /\ pc' = IF 0 < step_ THEN "vel" ELSE "done"
    /\ run_t0' = current_time_
    /\ run_loaded' = FALSE
    /\ UNCHANGED <<kind, direction_, delta_, step_, initial_time_, current_time_,
                   initial_pos_, dfVars, tasks>>
    /\ UNCHANGED <<main, auxVars>>

\* The test with current_time_ compared strictly.
OutsideBracketStrict ==
    \/ /\ current_time_ > current_data_time_ + SignedDataDelta
       /\ end_data_time_ > current_data_time_ + SignedDataDelta
       /\ direction_ = Forward
    \/ /\ current_time_ < current_data_time_ + SignedDataDelta
       /\ end_data_time_ < current_data_time_ + SignedDataDelta
       /\ direction_ = Backward

\* The test without its look at the end of the data.
OutsideBracketNoEnd ==
    \/ /\ current_time_ >= current_data_time_ + SignedDataDelta
       /\ direction_ = Forward
    \/ /\ current_time_ <= current_data_time_ + SignedDataDelta
       /\ direction_ = Backward

\* The test of DiscreteFlowField::SetCurrentVelocity for moving the bracket.
OutsideBracket ==
    \/ /\ current_time_ >= current_data_time_ + SignedDataDelta
       /\ end_data_time_ > current_data_time_ + SignedDataDelta
       /\ direction_ = Forward
    \/ /\ current_time_ <= current_data_time_ + SignedDataDelta
       /\ end_data_time_ < current_data_time_ + SignedDataDelta
       /\ direction_ = Backward

\* SetCurrentVelocity, first step of a run: the cursor starts at the begin time.
BracketInit ==
    /\ pc = "vel"
    /\ kind = Discrete
    /\ current_time_ = initial_time_
    /\ current_data_time_' = begin_data_time_
    /\ pc' = "search"
    /\ UNCHANGED <<kind, ffVars, data_delta_, begin_data_time_, end_data_time_,
                   vel_file_name_prefix_, vel_file_name_suffix_,
                   data_pos_, previous_data_vel_, next_data_vel_, current_data_vel_,
                   i, tasks, run_t0, run_loaded>>
    /\ UNCHANGED <<main, auxVars>>

\* The loop condition with the comparisons made non-strict.
SearchGoesOnMutant ==
    \/ direction_ = Forward /\ current_data_time_ <= initial_time_
    \/ direction_ = Backward /\ current_data_time_ >= initial_time_

\* The condition of the while loop that looks for the anchor.
SearchGoesOn ==
    \/ direction_ = Forward /\ current_data_time_ < initial_time_
    \/ direction_ = Backward /\ current_data_time_ > initial_time_

\* The cursor after one pass of the body of the while loop.
SearchMove(cursor, signed_data_delta) ==
    IF direction_ = Forward
    THEN cursor + signed_data_delta
    ELSE cursor - signed_data_delta

\* One pass of the while loop that looks for the anchor.
SearchStep ==
    /\ pc = "search"
    /\ SearchGoesOn
    /\ Abs(current_data_time_) <= Lit(MaxTime)
    /\ current_data_time_' = SearchMove(current_data_time_, SignedDataDelta)
    /\ UNCHANGED <<kind, ffVars, data_delta_, begin_data_time_, end_data_time_,
                   vel_file_name_prefix_, vel_file_name_suffix_,
                   data_pos_, previous_data_vel_, next_data_vel_, current_data_vel_,
                   runVars>>
    /\ UNCHANGED <<main, auxVars>>

\* The while loop ends: the two loading tasks are created.
SearchDone ==
    /\ pc = "search"
    /\ ~SearchGoesOn
    /\ pc' = "load"
    /\ tasks' = {}
    /\ UNCHANGED <<kind, ffVars, dfVars, i, run_t0, run_loaded>>
    /\ UNCHANGED <<main, auxVars>>

\* SetCurrentVelocity, later step: the bracket moves one interval on.
BracketAdvance ==
    /\ pc = "vel"
    /\ kind = Discrete
    /\ current_time_ # initial_time_
    /\ OutsideBracket
    /\ current_data_time_' = current_data_time_ + SignedDataDelta
    /\ pc' = "load"
    /\ tasks' = {}
    /\ UNCHANGED <<kind, ffVars, data_delta_, begin_data_time_, end_data_time_,
                   vel_file_name_prefix_, vel_file_name_suffix_,
                   data_pos_, previous_data_vel_, next_data_vel_, current_data_vel_,
                   i, run_t0, run_loaded>>
    /\ UNCHANGED <<main, auxVars>>

\* SetCurrentVelocity, later step: the bracket stays.
BracketKeep ==
    /\ pc = "vel"
    /\ kind = Discrete
    /\ current_time_ # initial_time_
    /\ ~OutsideBracket
    /\ pc' = "interp"
    /\ UNCHANGED <<kind, ffVars, dfVars, i, tasks, run_t0, run_loaded>>
    /\ UNCHANGED <<main, auxVars>>

\* ReadFromFile without its test that the file has opened.
ReadableUnopened(name) ==
    /\ FileContent(name).nx = data_nx
    /\ FileContent(name).ny = data_ny

\* FieldPolicy::ReadFromFile can read the file: it opens and has the shape
\* of the field.
Readable(name) ==
    /\ FileExists(name)
    /\ FileContent(name).nx = data_nx
    /\ FileContent(name).ny = data_ny

\* A data velocity buffer after UpdateTime(t) and ReadDataVelocityFromFile:
\* time stamp and data come from the file; without the file the time set by
\* UpdateTime stays.
LoadedAt(buffer, t) ==
    IF Readable(FileName(t))
    THEN [buffer EXCEPT !.time = FileContent(FileName(t)).time,
                        !.data = FileContent(FileName(t)).data]
    ELSE [buffer EXCEPT !.time = t]

\* The task that loads previous_data_vel_ at the anchor.
LoadPrevious ==
    /\ pc = "load"
    /\ "previous" \notin tasks
    /\ previous_data_vel_' = LoadedAt(previous_data_vel_, current_data_time_)
    /\ IF Readable(FileName(current_data_time_))
       THEN /\ tasks' = tasks \cup {"previous"}
            /\ pc' = pc
       ELSE /\ tasks' = tasks
            /\ pc' = "failed"
    /\ UNCHANGED <<kind, ffVars, data_delta_, current_data_time_,
                   begin_data_time_, end_data_time_,
                   vel_file_name_prefix_, vel_file_name_suffix_,
                   data_pos_, next_data_vel_, current_data_vel_,
                   i, run_t0, run_loaded>>
    /\ UNCHANGED <<main, auxVars>>

\* The second task loading at the anchor, as the first one does.
LoadNextMutant ==
    /\ pc = "load"
    /\ "next" \notin tasks
    /\ next_data_vel_' = LoadedAt(next_data_vel_, current_data_time_)
    /\ IF Readable(FileName(current_data_time_))
       THEN /\ tasks' = tasks \cup {"next"}
            /\ pc' = pc
       ELSE /\ tasks' = tasks
            /\ pc' = "failed"
    /\ UNCHANGED <<kind, ffVars, data_delta_, current_data_time_,
                   begin_data_time_, end_data_time_,
                   vel_file_name_prefix_, vel_file_name_suffix_,
                   data_pos_, previous_data_vel_, current_data_vel_,
                   i, run_t0, run_loaded>>
    /\ UNCHANGED <<main, auxVars>>

\* The task that loads next_data_vel_ one signed interval after the anchor.
LoadNext ==
    /\ pc = "load"
    /\ "next" \notin tasks
    /\ next_data_vel_' = LoadedAt(next_data_vel_, current_data_time_ + SignedDataDelta)
    /\ IF Readable(FileName(current_data_time_ + SignedDataDelta))
       THEN /\ tasks' = tasks \cup {"next"}
            /\ pc' = pc
       ELSE /\ tasks' = tasks
            /\ pc' = "failed"
    /\ UNCHANGED <<kind, ffVars, data_delta_, current_data_time_,
                   begin_data_time_, end_data_time_,
                   vel_file_name_prefix_, vel_file_name_suffix_,
                   data_pos_, previous_data_vel_, current_data_vel_,
                   i, run_t0, run_loaded>>
    /\ UNCHANGED <<main, auxVars>>

\* A parallel region that ends as soon as one task has finished.
JoinEarly ==
    /\ pc = "load"
    /\ tasks # {}
    /\ pc' = "interp"
    /\ run_loaded' = TRUE
    /\ UNCHANGED <<kind, ffVars, dfVars, i, tasks, run_t0>>
    /\ UNCHANGED <<main, auxVars>>

\* The end of the parallel region: both tasks have finished.
Join ==
    /\ pc = "load"
    /\ tasks = {"previous", "next"}
    /\ pc' = "interp"
    /\ run_loaded' = TRUE
    /\ UNCHANGED <<kind, ffVars, dfVars, i, tasks, run_t0>>
    /\ UNCHANGED <<main, auxVars>>

\* SetCurrentVelocity, its end: temporal, then spatial interpolation.
Interpolate ==
    /\ pc = "interp"
    /\ LET cdv == [current_data_vel_ EXCEPT
                      !.data = interpolateField(previous_data_vel_.time,
                                                next_data_vel_.time,
                                                previous_data_vel_, next_data_vel_,
                                                current_time_)]
       IN  /\ current_data_vel_' = cdv
           /\ current_vel_' = [current_vel_ EXCEPT
                                  !.data = InterpolateFrom(current_vel_, current_pos_,
                                                           cdv, data_pos_)]
    /\ pc' = "update"
    /\ UNCHANGED <<kind, direction_, delta_, step_, initial_time_, current_time_,
                   initial_pos_, current_pos_,
                   data_delta_, current_data_time_, begin_data_time_, end_data_time_,
                   vel_file_name_prefix_, vel_file_name_suffix_,
                   data_pos_, previous_data_vel_, next_data_vel_,
                   i, tasks, run_t0, run_loaded>>
    /\ UNCHANGED <<main, auxVars>>

\* The velocity function evaluated at the time the step ends at.
NewContinuousVelocityAfterStep(pos, time) ==
    [data |-> [c \in DOMAIN pos.data |->
                  Func(pos.data[c],
                       IF direction_ = Forward THEN time + delta_ ELSE time - delta_)],
     time |-> time]

\* ContinuousVelocity(nx, ny, pos, time) with ContinuousVelocity::SetAll().
NewContinuousVelocity(pos, time) ==
    [data |-> [c \in DOMAIN pos.data |-> Func(pos.data[c], time)], time |-> time]

\* ContinuousFlowField::SetCurrentVelocity
ContinuousSetCurrentVelocity ==
    /\ pc = "vel"
    /\ kind = Continuous
    /\ current_vel_' = NewContinuousVelocity(current_pos_, current_time_)
    /\ pc' = "update"
    /\ UNCHANGED <<kind, direction_, delta_, step_, initial_time_, current_time_,
                   initial_pos_, current_pos_, dfVars, i, tasks, run_t0, run_loaded>>
    /\ UNCHANGED <<main, auxVars>>

\* Run(): current_pos_->Update(*current_vel_, +-delta_), the rows in the order
\* of the loop (one thread, or a build without OpenMP).
PositionUpdate ==
    /\ pc = "update"
    /\ current_pos_' = Update(current_pos_, current_vel_, SignedDelta)
    /\ pc' = "time"
    /\ UNCHANGED <<kind, direction_, delta_, step_, initial_time_, current_time_,
                   initial_pos_, current_vel_, dfVars, i, tasks, run_t0, run_loaded>>
    /\ UNCHANGED <<main, auxVars>>

\* UpdateTime() without its switch on the direction.
NextTimeMutant(time, direction, delta) == time + delta

\* The time FlowField::UpdateTime() moves to.
NextTime(time, direction, delta) ==
    IF direction = Forward THEN time + delta ELSE time - delta

\* Run(): UpdateTime(), then the loop counter and the loop test.
UpdateTime ==
    /\ pc = "time"
    /\ current_time_' = NextTime(current_time_, direction_, delta_)
    /\ current_pos_' = [current_pos_ EXCEPT !.time = current_time_']
    /\ current_vel_' = [current_vel_ EXCEPT !.time = current_time_']
    /\ i' = i + 1
    /\ pc' = IF i + 1 < step_ THEN "vel" ELSE "done"
    /\ UNCHANGED <<kind, direction_, delta_, step_, initial_time_, initial_pos_,
                   dfVars, tasks, run_t0, run_loaded>>
    /\ UNCHANGED <<main, auxVars>>

Next ==
    \/ \E delta \in DeltaValues : SetDelta(delta)
    \/ \E step \in StepValues : SetStep(step)
    \/ \E time \in InitialTimeValues : SetInitialTime(time)
    \/ \E direction \in {Forward, Backward} : SetDirection(direction)
    \/ \E r \in DataTimeRanges : SetDataTimeRange(r[1], r[2])
    \/ \E delta \in DataDeltaValues : SetDataDelta(delta)
    \/ \E box \in InitialBoxes : SetInitialPosition(box)
    \/ SetDataPosition(DataBox)
    \/ SetVelocityFileNamePrefix(DemoPrefix)
    \/ RunBegin
    \/ BracketInit
    \/ SearchStep
    \/ SearchDone
    \/ BracketAdvance
    \/ BracketKeep
    \/ LoadPrevious
    \/ LoadNext
    \/ Join
    \/ Interpolate
    \/ ContinuousSetCurrentVelocity
    \/ PositionUpdate
    \/ UpdateTime

Spec == Init /\ [][Next]_vars

\* ------------------------------------------ discrete_double_gyre.cpp, main()
\* The arguments of the demo: SetDelta(.1) and SetStep(200).
DemoDelta == Scale \div 10
DemoSteps == 200

\* The statement main() is at, counted from the construction of the
\* DiscreteFlowField; the first Run(), the second Run(), the end.
FirstRun == 8
SecondRun == 13
MainEnd == 15

\* main() after DiscreteFlowField<double, 2> double_gyre(...).
InitB ==
    /\ kind = Discrete
    /\ main = 1
    /\ call = NULL
    /\ Constructed

\* Run() returns to main().
MainResumes ==
    /\ pc = "done"
    /\ main \in {FirstRun, SecondRun}
    /\ pc' = "idle"
    /\ main' = AfterCall(main)
    /\ UNCHANGED auxVars
    /\ UNCHANGED <<kind, ffVars, dfVars, i, tasks, run_t0, run_loaded>>

\* FTLE::FTLE(ff): the initial time and the time of the flow field are taken
\* over as they are now.
NewFTLE ==
    /\ pc = "idle"
    /\ ftle = NULL
    /\ ftle' = [initial_time_ |-> initial_pos_.time,
                time_ |-> current_time_,
                dt |-> 0,
                calculated |-> 0]
    /\ main' = AfterCall(main)
    /\ UNCHANGED <<kind, ffVars, dfVars, runVars, call>>

\* FTLE::Calculate(): dt = this->time_ - initial_time_ divides every value.
Calculate ==
    /\ pc = "idle"
    /\ ftle # NULL
    /\ ftle' = [ftle EXCEPT !.dt = ftle.time_ - ftle.initial_time_,
                            !.calculated = @ + 1]
    /\ main' = AfterCall(main)
    /\ UNCHANGED <<kind, ffVars, dfVars, runVars, call>>

\* The statements of main() in their order, and the steps of its two runs.
NextB ==
    \/ main = 1 /\ SetDataPosition(DataBox)
    \/ main = 2 /\ SetInitialPosition(DataBox)
    \/ main = 3 /\ SetVelocityFileNamePrefix(DemoPrefix)
    \/ main = 4 /\ SetDataDelta(Lit(1))
    \/ main = 5 /\ SetDataTimeRange(0, Lit(DemoLastFile))
    \/ main = 6 /\ SetDelta(DemoDelta)
    \/ main = 7 /\ SetStep(DemoSteps)
    \/ main = FirstRun /\ RunBegin
    \/ main = 9 /\ NewFTLE
    \/ main = 10 /\ Calculate
    \/ main = 11 /\ SetDirection(Backward)
    \/ main = 12 /\ SetInitialTime(Lit(DemoLastFile))
    \/ main = SecondRun /\ RunBegin
    \/ main = 14 /\ Calculate
    \/ MainResumes
    \/ BracketInit
    \/ SearchDone
    \/ BracketAdvance
    \/ BracketKeep
    \/ LoadPrevious
    \/ LoadNext
    \/ Join
    \/ Interpolate
    \/ PositionUpdate
    \/ UpdateTime

SpecB == InitB /\ [][NextB]_vars

\* ------------------------------------------ interpolate(), called on its own
\* A value beyond the significant bits of T, and the component values, the
\* fields and the times of the calls.
Big == 2 ^ (MantBits + 1)
SampleValues == {0 - 3, 1, Big}
SampleFields ==
    {[time |-> 0,
      data |-> [c \in Cells(data_nx, data_ny) |->
                   IF c = <<0, 0>> THEN <<a, b>> ELSE <<b, a>>]] :
        a \in SampleValues, b \in SampleValues}
SampleTimes == {0, Scale \div 2, Scale, 2 * Scale}

\* The calls interpolate(x1, x2, f1, f2, xm, result) that are made.
InterpolateCalls ==
    {[op |-> "interpolate", x1 |-> x1, x2 |-> x2, xm |-> xm, f1 |-> f1, f2 |-> f2,
      result |-> NewVelocity(data_nx, data_ny), returned |-> FALSE] :
        x1 \in {0, Scale}, x2 \in {0, Scale, 2 * Scale}, xm \in SampleTimes,
        f1 \in SampleFields, f2 \in SampleFields}

InitInterp ==
    /\ kind = Discrete
    /\ main = 0
    /\ Constructed
    /\ call \in InterpolateCalls

\* interpolate(x1, x2, f1, f2, xm, result) runs and returns.
InterpolateCall ==
    /\ call # NULL
    /\ call.op = "interpolate"
    /\ ~call.returned
    /\ call' = [call EXCEPT
                   !.result.data = interpolateField(call.x1, call.x2, call.f1,
                                                    call.f2, call.xm),
                   !.returned = TRUE]
    /\ UNCHANGED <<kind, ffVars, dfVars, runVars, main, ftle>>

NextInterp == InterpolateCall

SpecInterp == InitInterp /\ [][NextInterp]_vars

\* ------------------------------- Velocity::InterpolateFrom, called on its own
\* Strictly increasing axes of n entries, with spacings that are and are not
\* whole numbers, and reference data on them.
GridAxes(n) ==
    {UniformAxis(lo, lo + w * (n - 1), n) :
        lo \in {0, 0 - 3}, w \in {Scale \div 2, Scale, Scale - 3}}
GridData ==
    {[c \in Cells(data_nx, data_ny) |->
         <<a * (1 + c[1]) + c[2], b - 3 * c[1] * c[2]>>] :
        a \in {0 - 3, 1, 7}, b \in {0 - 3, 1, 7}}

\* The calls vel.InterpolateFrom(ref_vel) in which the Position of vel is a
\* copy of the Position of ref_vel, set to its grid points.
InterpolateFromCalls ==
    {[op |-> "InterpolateFrom",
      pos |-> SetAllRanges(NewPosition(data_nx, data_ny), xr, yr),
      ref_pos |-> SetAllRanges(NewPosition(data_nx, data_ny), xr, yr),
      ref_vel |-> [time |-> 0, data |-> d],
      vel |-> NewVelocity(data_nx, data_ny),
      returned |-> FALSE] :
        xr \in GridAxes(data_nx), yr \in GridAxes(data_ny), d \in GridData}

InitGrid ==
    /\ kind = Discrete
    /\ main = 0
    /\ Constructed
    /\ call \in InterpolateFromCalls

\* vel.InterpolateFrom(ref_vel) runs and returns.
InterpolateFromCall ==
    /\ call # NULL
    /\ call.op = "InterpolateFrom"
    /\ ~call.returned
    /\ call' = [call EXCEPT
                   !.vel.data = InterpolateFrom(call.vel, call.pos,
                                                call.ref_vel, call.ref_pos),
                   !.returned = TRUE]
    /\ UNCHANGED <<kind, ffVars, dfVars, runVars, main, ftle>>

NextGrid == InterpolateFromCall

SpecGrid == InitGrid /\ [][NextGrid]_vars

\* ------------------- FieldPolicy::ReadFromFile and Position::SetAll, checked
\* FieldPolicy::ReadFromFile(field, file_name) on a field of shape n x m; file
\* is what the name leads to, NULL when nothing opens.  The time stamp and
\* the data are read after the two checks.
ReadFromFileEager(field, n, m, file) ==
    IF file = NULL
    THEN [field |-> field, error |-> "runtime_error"]
    ELSE IF n # file.nx \/ m # file.ny
         THEN [field |-> [field EXCEPT !.time = file.time],
               error |-> "domain_error"]
         ELSE [field |-> [field EXCEPT !.time = file.time, !.data = file.data],
               error |-> "none"]
ReadFromFile(field, n, m, file) ==
    IF file = NULL
    THEN [field |-> field, error |-> "runtime_error"]
    ELSE IF n # file.nx \/ m # file.ny
         THEN [field |-> field, error |-> "domain_error"]
         ELSE [field |-> [field EXCEPT !.time = file.time, !.data = file.data],
               error |-> "none"]

\* Position::SetAll(xrange, yrange) on a Position of shape n x m, with its
\* size check.
SetAll(pos, n, m, xrange, yrange) ==
    IF Len(xrange) # n \/ Len(yrange) # m
    THEN [pos |-> pos, error |-> "domain_error"]
    ELSE [pos |-> SetAllRanges(pos, xrange, yrange), error |-> "none"]

\* Files of the shape of the data grid and of shapes one off, and a missing
\* file; fields that have been read before.
ShapeFiles ==
    {[nx |-> n, ny |-> m, time |-> Lit(t),
      data |-> [c \in Cells(n, m) |-> <<t + c[1], c[2] - t>>]] :
        n \in data_nx - 1 .. data_nx + 1, m \in data_ny - 1 .. data_ny + 1,
        t \in {1, 2}}
ShapeFields ==
    {NewVelocity(data_nx, data_ny),
     [time |-> Lit(3), data |-> FileVel(3)]}
ReadFromFileCalls ==
    {[op |-> "ReadFromFile", field |-> f, file |-> file,
      error |-> "none", returned |-> FALSE] :
        f \in ShapeFields, file \in ShapeFiles \cup {NULL}}

\* Axes of the length of the grid and of lengths one off; Positions new and
\* set before.
ShapeAxes(n) ==
    {[k \in 1 .. len |-> lo + (k - 1) * Scale] :
        len \in n - 1 .. n + 1, lo \in {0, 0 - 3}}
ShapePositions ==
    {NewPosition(nx, ny)} \cup {SetAllBox(NewPosition(nx, ny), nx, ny, b) : b \in InitialBoxes}
SetAllCalls ==
    {[op |-> "SetAll", pos |-> p, xrange |-> xr, yrange |-> yr,
      error |-> "none", returned |-> FALSE] :
        p \in ShapePositions, xr \in ShapeAxes(nx), yr \in ShapeAxes(ny)}

InitShape ==
    /\ kind = Discrete
    /\ main = 0
    /\ Constructed
    /\ \/ call \in ReadFromFileCalls
       \/ call \in SetAllCalls

\* field.ReadFromFile(file_name) runs and returns or throws.
ReadFromFileCall ==
    /\ call # NULL
    /\ call.op = "ReadFromFile"
    /\ ~call.returned
    /\ LET r == ReadFromFile(call.field, data_nx, data_ny, call.file)
       IN call' = [call EXCEPT !.field = r.field, !.error = r.error,
                               !.returned = TRUE]
    /\ UNCHANGED <<kind, ffVars, dfVars, runVars, main, ftle>>

\* pos.SetAll(xrange, yrange) runs and returns or throws.
SetAllCall ==
    /\ call # NULL
    /\ call.op = "SetAll"
    /\ ~call.returned
    /\ LET r == SetAll(call.pos, nx, ny, call.xrange, call.yrange)
       IN call' = [call EXCEPT !.pos = r.pos, !.error = r.error,
                               !.returned = TRUE]
    /\ UNCHANGED <<kind, ffVars, dfVars, runVars, main, ftle>>

NextShape ==
    \/ ReadFromFileCall
    \/ SetAllCall

SpecShape == InitShape /\ [][NextShape]_vars

\* ----------------------------- the client that queries before it calls Run()
\* A FlowField constructed as such, not as one of its two subclasses.
Base == "Base"

\* FlowField::CurrentPosition(): the Position current_pos_ points to, which
\* the constructor has allocated.
CurrentPosition == [error |-> "none", value |-> current_pos_]

\* CurrentVelocity() without its test for the null pointer.
CurrentVelocityUnchecked == [error |-> "none", value |-> current_vel_]

\* FlowField::CurrentVelocity() and ContinuousFlowField::CurrentVelocity():
\* the Velocity the pointer leads to, or the throw when it is null.
CurrentVelocity ==
    IF current_vel_ = NULL
    THEN [error |-> "invalid_argument", value |-> NULL]
    ELSE [error |-> "none", value |-> current_vel_]

InitQuery ==
    /\ kind \in {Base, Discrete, Continuous}
    /\ main = 0
    /\ call = NULL
    /\ Constructed

\* The client calls CurrentPosition().
CurrentPositionCall ==
    /\ pc = "idle"
    /\ call' = [op |-> "CurrentPosition", error |-> CurrentPosition.error,
                value |-> CurrentPosition.value]
    /\ main' = AfterCall(main)
    /\ UNCHANGED <<kind, ffVars, dfVars, runVars, ftle>>

\* The client calls CurrentVelocity().
CurrentVelocityCall ==
    /\ pc = "idle"
    /\ call' = [op |-> "CurrentVelocity", error |-> CurrentVelocity.error,
                value |-> CurrentVelocity.value]
    /\ main' = AfterCall(main)
    /\ UNCHANGED <<kind, ffVars, dfVars, runVars, ftle>>

NextQuery ==
    \/ \E delta \in DeltaValues : SetDelta(delta)
    \/ \E step \in StepValues : SetStep(step)
    \/ \E time \in InitialTimeValues : SetInitialTime(time)
    \/ \E direction \in {Forward, Backward} : SetDirection(direction)
    \/ \E box \in InitialBoxes : SetInitialPosition(box)
    \/ CurrentPositionCall
    \/ CurrentVelocityCall

SpecQuery == InitQuery /\ [][NextQuery]_vars

\* ------------------------------ the client whose data range outruns its files
\* A data time range that ends one interval after the last file.
LongDataTimeRange == <<0, Lit(MaxFile + 1)>>

NextMissing ==
    \/ SetDataTimeRange(LongDataTimeRange[1], LongDataTimeRange[2])
    \/ Next

SpecMissing == Init /\ [][NextMissing]_vars

\* ------------------------------- Position::Update, row by row in parallel
\* The Positions Update is called on: the current Position of a discrete run
\* (with flags and the bounding box of the data grid) and of a continuous
\* one (without), at the initial grid; and the velocities and the time step.
TrackedPositions ==
    {DiscreteCopy(NewPosition(nx, ny), SetAllBox(NewPosition(nx, ny), nx, ny, b),
                  SetAllBox(NewPosition(data_nx, data_ny), data_nx, data_ny, DataBox)) :
        b \in InitialBoxes}
UntrackedPositions ==
    {ContinuousCopy(NewPosition(nx, ny), SetAllBox(NewPosition(nx, ny), nx, ny, b)) :
        b \in InitialBoxes}
UpdateVelocities ==
    {[time |-> 0, data |-> [c \in Cells(nx, ny) |-> <<a, b>>]] :
        a \in {0 - Lit(1), 0, Lit(3)}, b \in {0, Lit(2)}}
Rows == 0 .. nx - 1

\* The calls pos.Update(vel, delta); each row i of the loop has a worker that
\* is at cell (i, j), about to move it ("move"), to read the word of its flag
\* ("read") or to write it back ("write"), or has finished its row ("done").
UpdateCalls(positions) ==
    {[op |-> "Update", start |-> p, pos |-> p, vel |-> v, delta |-> Scale,
      j |-> [r \in Rows |-> 0], at |-> [r \in Rows |-> "move"],
      word |-> [r \in Rows |-> FalseTensor(nx, ny)], returned |-> FALSE] :
        p \in positions, v \in UpdateVelocities}

InitUpdate ==
    /\ kind = Discrete
    /\ main = 0
    /\ Constructed
    /\ \/ call \in UpdateCalls(TrackedPositions)
       \/ call \in UpdateCalls(UntrackedPositions)

\* The worker of row r after cell (r, j): the next cell or the end of the row.
RowAdvance(r) ==
    [call EXCEPT !.j[r] = @ + 1,
                 !.at[r] = IF call.j[r] + 1 < ny THEN "move" ELSE "done"]

\* The worker of row r adds vel * delta to the coordinates of its cell and
\* tests them against the bounding box.
CellMove(r) ==
    /\ call # NULL
    /\ call.op = "Update"
    /\ call.at[r] = "move"
    /\ LET c == <<r, call.j[r]>>
           moved == Displaced(call.pos.data[c], call.vel.data[c], call.delta)
       IN IF call.pos.out_of_bound # NULL /\ OutsideBound(moved, call.pos.bound)
          THEN call' = [call EXCEPT !.pos.data[c] = moved, !.at[r] = "read"]
          ELSE call' = [RowAdvance(r) EXCEPT !.pos.data[c] = moved]
    /\ UNCHANGED <<kind, ffVars, dfVars, runVars, main, ftle>>

\* out_of_bound_->SetValue(i, j, true), first half: the worker reads the
\* word that holds the flag.
FlagRead(r) ==
    /\ call # NULL
    /\ call.op = "Update"
    /\ call.at[r] = "read"
    /\ call' = [call EXCEPT !.word[r] = call.pos.out_of_bound, !.at[r] = "write"]
    /\ UNCHANGED <<kind, ffVars, dfVars, runVars, main, ftle>>

\* SetValue, second half: the worker writes the word back with its bit set.
FlagWrite(r) ==
    /\ call # NULL
    /\ call.op = "Update"
    /\ call.at[r] = "write"
    /\ LET c == <<r, call.j[r]>>
       IN call' = [RowAdvance(r) EXCEPT
                      !.pos.out_of_bound =
                          [d \in Cells(nx, ny) |->
                              IF d = c THEN TRUE
                              ELSE IF SameWord(c, d) THEN call.word[r][d]
                              ELSE call.pos.out_of_bound[d]]]
    /\ UNCHANGED <<kind, ffVars, dfVars, runVars, main, ftle>>

\* The end of the parallel loop: all rows are done and Update returns.
UpdateReturn ==
    /\ call # NULL
    /\ call.op = "Update"
    /\ ~call.returned
    /\ \A r \in Rows : call.at[r] = "done"
    /\ call' = [call EXCEPT !.returned = TRUE]
    /\ UNCHANGED <<kind, ffVars, dfVars, runVars, main, ftle>>

NextUpdate ==
    \/ \E r \in Rows : CellMove(r)
    \/ \E r \in Rows : FlagRead(r)
    \/ \E r \in Rows : FlagWrite(r)
    \/ UpdateReturn

SpecUpdate == InitUpdate /\ [][NextUpdate]_vars

\* ------------------------------------- the run with the rows updated in parallel
\* The client of Spec, with runs shorter than MaxStep steps.
\* Run(): current_pos_->Update(*current_vel_, +-delta_) with the rows spread
\* over threads: any of the Positions the unsynchronized flag writes leave.
PositionUpdateOmp ==
    /\ pc = "update"
    /\ current_pos_' \in UpdateOutcomes(current_pos_, current_vel_, SignedDelta)
    /\ pc' = "time"
    /\ UNCHANGED <<kind, direction_, delta_, step_, initial_time_, current_time_,
                   initial_pos_, current_vel_, dfVars, i, tasks, run_t0, run_loaded>>
    /\ UNCHANGED <<main, auxVars>>

NextOmp ==
    \/ \E delta \in DeltaValues : SetDelta(delta)
    \/ \E step \in StepValues \ {MaxStep} : SetStep(step)
    \/ \E time \in InitialTimeValues : SetInitialTime(time)
    \/ \E direction \in {Forward, Backward} : SetDirection(direction)
    \/ \E r \in DataTimeRanges : SetDataTimeRange(r[1], r[2])
    \/ \E delta \in DataDeltaValues : SetDataDelta(delta)
    \/ \E box \in InitialBoxes : SetInitialPosition(box)
    \/ SetDataPosition(DataBox)
    \/ SetVelocityFileNamePrefix(DemoPrefix)
    \/ RunBegin
    \/ BracketInit
    \/ SearchStep
    \/ SearchDone
    \/ BracketAdvance
    \/ BracketKeep
    \/ LoadPrevious
    \/ LoadNext
    \/ Join
    \/ Interpolate
    \/ ContinuousSetCurrentVelocity
    \/ PositionUpdateOmp
    \/ UpdateTime

SpecOmp == Init /\ [][NextOmp]_vars

\* ----------------------------------------- the client that calls Run() again
\* Run() returns to a client that is not the demo's main(); the client goes
\* on with the same flow field.  call counts the return, so that a behaviour
\* has at most two runs.
RunReturn ==
    /\ pc = "done"
    /\ main = 0
    /\ call = NULL
    /\ pc' = "idle"
    /\ call' = [op |-> "Run", returned |-> TRUE]
    /\ UNCHANGED <<kind, ffVars, dfVars, i, tasks, run_t0, run_loaded, main, ftle>>

NextAgain ==
    \/ SetDelta(Scale)
    \/ \E step \in {0, 2} : SetStep(step)
    \/ \E time \in {0, Lit(1)} : SetInitialTime(time)
    \/ \E direction \in {Forward, Backward} : SetDirection(direction)
    \/ SetDataTimeRange(0, Lit(MaxFile))
    \/ SetDataDelta(Scale)
    \/ SetInitialPosition(DataBox)
    \/ SetDataPosition(DataBox)
    \/ RunBegin
    \/ BracketInit
    \/ SearchStep
    \/ SearchDone
    \/ BracketAdvance
    \/ BracketKeep
    \/ LoadPrevious
    \/ LoadNext
    \/ Join
    \/ Interpolate
    \/ ContinuousSetCurrentVelocity
    \/ PositionUpdate
    \/ UpdateTime
    \/ RunReturn

SpecAgain == Init /\ [][NextAgain]_vars

\* ------------------------- the index pair of InterpolateFrom, checked alone
\* The entries reference axes are made of, and the longest axis.
AxisValues == {0 - Scale, 0, Scale \div 2, Scale, 3 * Scale}
MaxAxis == 4

\* The entries of S in increasing order.
RECURSIVE Ascending(_)
Ascending(S) ==
    IF S = {}
    THEN <<>>
    ELSE LET least == CHOOSE x \in S : \A y \in S : x <= y
         IN  <<least>> \o Ascending(S \ {least})

\* Strictly increasing reference axes of 2 .. MaxAxis entries.
BracketAxes ==
    {Ascending(S) : S \in {R \in SUBSET AxisValues :
                              Cardinality(R) >= 2 /\ Cardinality(R) <= MaxAxis}}

\* Target coordinates below, on, between and above the entries.
BracketTargets ==
    {v + d : v \in AxisValues, d \in {0 - 2, 0, 2}}

\* The search for the pair of one coordinate of one target cell.
BracketCalls ==
    {[op |-> "bracket", axis |-> axis, target |-> target, returned |-> FALSE] :
        axis \in BracketAxes, target \in BracketTargets}

InitBracket ==
    /\ kind = Discrete
    /\ main = 0
    /\ Constructed
    /\ call \in BracketCalls

\* The lines of InterpolateFrom that choose i_next and i_pre.
BracketCall ==
    /\ call # NULL
    /\ call.op = "bracket"
    /\ ~call.returned
    /\ call' = [op |-> "bracket", axis |-> call.axis, target |-> call.target,
                returned |-> TRUE,
                i_next |-> NextIndex(call.axis, call.target),
                i_pre |-> NextIndex(call.axis, call.target) - 1]
    /\ UNCHANGED <<kind, ffVars, dfVars, runVars, main, ftle>>

NextBracket == BracketCall

SpecBracket == InitBracket /\ [][NextBracket]_vars

\* ------------------------------------------------- a run that keeps running
\* Run() is one sequential piece of code (its loading tasks are joined by
\* the parallel region): once called, its next statement is executed as long
\* as there is one.  The setters are the client's and may never come.
\* Weak fairness of Interpolate: it is enabled exactly in the states with
\* pc = "interp" and every step it takes leaves them.
InterpolateFairness == []<>(pc # "interp")

RunFairness ==
    /\ WF_vars(BracketInit)
    /\ WF_vars(SearchStep)
    /\ WF_vars(SearchDone)
    /\ WF_vars(BracketAdvance)
    /\ WF_vars(BracketKeep)
    /\ WF_vars(LoadPrevious)
    /\ WF_vars(LoadNext)
    /\ WF_vars(Join)
    /\ InterpolateFairness
    /\ WF_vars(ContinuousSetCurrentVelocity)
    /\ WF_vars(PositionUpdate)
    /\ WF_vars(UpdateTime)

SpecLive == Init /\ [][NextAgain]_vars /\ RunFairness

\* ------------------------------------------------------------------ claims
\* Run() is inside its loop or has left it.
InRun == pc \notin {"idle"}

\* A step of Run() has been completed.
Stepped == i >= 1 /\ pc \in {"vel", "search", "load", "interp", "update", "time", "done", "failed"}

\* C1 (as stated): after a Run() of N steps that began at t0, GetTime() is
\* t0 + N * delta (Forward) or t0 - N * delta (Backward), and the current
\* Position and the current Velocity carry that time stamp.
C1_AfterRunStamped ==
    pc = "done" =>
        /\ current_time_ = run_t0 + step_ * SignedDelta
        /\ current_pos_.time = current_time_
        /\ current_vel_ # NULL
        /\ current_vel_.time = current_time_

\* C1 (amended): every step of Run() changes current_time_ by exactly +delta
\* (Forward) or -delta (Backward); after k completed steps of a Run() that
\* began at t0 the time is t0 + k * delta or t0 - k * delta, and once at least
\* one step has been completed the current Position and the current Velocity
\* carry the time stamp of the last completed step.
C1_TimeAdvance ==
    /\ [](InRun => current_time_ = run_t0 + i * SignedDelta)
    /\ [](Stepped /\ pc # "time" =>
            /\ current_pos_.time = current_time_
            /\ current_vel_.time = current_time_)
    /\ [](pc = "done" => i = step_)
    /\ [][pc = "time" =>
            /\ direction_ = Forward => current_time_' = current_time_ + delta_
            /\ direction_ = Backward => current_time_' = current_time_ - delta_
            /\ current_pos_'.time = current_time_'
            /\ current_vel_'.time = current_time_']_vars

\* C1 witness: a backward Run() of at least two steps has returned.
C1_Witness ==
    /\ pc = "done"
    /\ direction_ = Backward
    /\ i >= 2
    /\ current_time_ = run_t0 - i * delta_
    /\ current_vel_.time = current_time_

\* The end-of-data time has been passed.
PastEnd ==
    \/ direction_ = Forward /\ current_time_ > end_data_time_
    \/ direction_ = Backward /\ current_time_ < end_data_time_

\* current_time_ lies inside the bracket of the two buffers.
InBracket ==
    \/ /\ direction_ = Forward
       /\ previous_data_vel_.time <= current_time_
       /\ current_time_ <= next_data_vel_.time
    \/ /\ direction_ = Backward
       /\ next_data_vel_.time <= current_time_
       /\ current_time_ <= previous_data_vel_.time

Whole(t) == t % Scale = 0

\* The run began on a data time: initial_time_ is a whole number of data
\* intervals away from the begin time, in the direction of integration.
StartsOnData ==
    /\ direction_ = Forward => initial_time_ >= begin_data_time_
    /\ direction_ = Backward => initial_time_ <= begin_data_time_
    /\ (initial_time_ - begin_data_time_) % data_delta_ = 0

BuffersRead == run_loaded /\ pc \in {"vel", "interp", "update", "time", "done"}

\* C3 (as stated): from the first bracket load of a run on, at every step
\* next.time - previous.time is the signed data interval.
C3_AlwaysOneInterval ==
    BuffersRead => next_data_vel_.time - previous_data_vel_.time = SignedDataDelta

\* C3 (amended): the same, provided the anchor and the data interval are
\* whole numbers (the file of a time t is the one named by integer(t), and
\* holds that integer as its time stamp).
C3_OneInterval ==
    (BuffersRead /\ Whole(current_data_time_) /\ Whole(data_delta_)) =>
        next_data_vel_.time - previous_data_vel_.time = SignedDataDelta

\* C3 witness: a backward run has moved its bracket and read both files.
C3_Witness ==
    /\ BuffersRead
    /\ pc = "interp"
    /\ direction_ = Backward
    /\ Whole(current_data_time_)
    /\ Whole(data_delta_)
    /\ current_data_time_ # begin_data_time_
    /\ next_data_vel_.time - previous_data_vel_.time = 0 - data_delta_

\* A later step of a discrete run is about to check its bracket.
LaterCheck == pc = "vel" /\ kind = Discrete /\ i >= 1

\* current_time_ is outside [previous.time, next.time] on the side the
\* integration moves to.
MovedOutside ==
    \/ direction_ = Forward /\ current_time_ > next_data_vel_.time
    \/ direction_ = Backward /\ current_time_ < next_data_vel_.time

\* The bracket one interval on lies inside the configured data time range.
NextBracketInRange ==
    \/ /\ direction_ = Forward
       /\ current_data_time_ + 2 * SignedDataDelta <= end_data_time_
    \/ /\ direction_ = Backward
       /\ current_data_time_ + 2 * SignedDataDelta >= end_data_time_

\* The bracket check of a step moved the anchor one interval on and started
\* the reload, or left anchor and buffers alone.
Advanced ==
    /\ current_data_time_' = current_data_time_ + SignedDataDelta
    /\ pc' = "load"
Kept ==
    /\ current_data_time_' = current_data_time_
    /\ pc' = "interp"
    /\ UNCHANGED <<previous_data_vel_, next_data_vel_>>

ReachedEdge ==
    \/ direction_ = Forward /\ current_time_ >= current_data_time_ + data_delta_
    \/ direction_ = Backward /\ current_time_ <= current_data_time_ - data_delta_

\* The end-of-data time lies strictly beyond the far edge of the bracket.
EndBeyondEdge ==
    \/ direction_ = Forward /\ end_data_time_ > current_data_time_ + data_delta_
    \/ direction_ = Backward /\ end_data_time_ < current_data_time_ - data_delta_

\* The buffers hold the files named by the anchor and by the anchor plus one
\* signed interval.
BuffersAtAnchor ==
    /\ previous_data_vel_ =
          [time |-> Lit(ToInt(current_data_time_)),
           data |-> FileVel(ToInt(current_data_time_))]
    /\ next_data_vel_ =
          [time |-> Lit(ToInt(current_data_time_ + SignedDataDelta)),
           data |-> FileVel(ToInt(current_data_time_ + SignedDataDelta))]

C5_CursorTowardInitial ==
    [][pc = "search" /\ pc' = "search" =>
          /\ direction_ = Forward => current_data_time_' = current_data_time_ + data_delta_
          /\ direction_ = Backward => current_data_time_' = current_data_time_ - data_delta_]_vars

\* C6 (as stated): once a discrete run has stepped current_time_ past the
\* end-of-data time no error is raised and no snapshot is loaded any more.
C6_NoLoadPastEnd ==
    (kind = Discrete /\ i >= 1 /\ PastEnd) => pc \notin {"load", "failed"}

\* The data time range is a whole number of data intervals.
RangeOnData == (end_data_time_ - begin_data_time_) % data_delta_ = 0

\* C6 (amended): the same, for a run that began at initial_time with delta <=
\* data_delta and a data time range that is a whole number of data intervals;
\* from then on the anchor and both buffers stay as they are.
C6_NoLoadPastEndSmallStep ==
    /\ [](kind = Discrete /\ i >= 1 /\ PastEnd /\ run_t0 = initial_time_
            /\ delta_ <= data_delta_ /\ RangeOnData
          => pc \notin {"load", "failed"})
    /\ [][kind = Discrete /\ i >= 1 /\ PastEnd /\ run_t0 = initial_time_
            /\ delta_ <= data_delta_ /\ RangeOnData
          => UNCHANGED <<current_data_time_, previous_data_vel_, next_data_vel_>>]_vars

\* C6 witness: a backward run that has read a bracket is interpolating two
\* steps or more past the end-of-data time.
C6_Witness ==
    /\ pc = "interp"
    /\ direction_ = Backward
    /\ run_loaded
    /\ delta_ <= data_delta_
    /\ RangeOnData
    /\ end_data_time_ # begin_data_time_
    /\ current_time_ <= end_data_time_ - 2 * delta_

\* C7: in the demo, with files at the whole times 0 .. 20, neither run fails:
\* the search for the anchor ends at once, every file a run asks for is named
\* by a whole time in 0 .. 20, and main() reaches its end with both runs
\* having made all their steps.
C7_DemoRunsComplete ==
    /\ pc # "failed"
    /\ pc = "search" => ~SearchGoesOn
    /\ pc = "load" =>
          \A t \in {current_data_time_, current_data_time_ + SignedDataDelta} :
              /\ Whole(t)
              /\ FileName(t)[1] = DemoPrefix
              /\ FileName(t)[2] \in 0 .. DemoLastFile
    /\ main > FirstRun => i = DemoSteps \/ (main = SecondRun /\ pc # "idle")
    /\ main = MainEnd => pc = "idle" /\ i = DemoSteps

\* C7 witness: main() is at its end after the backward run of 200 steps from
\* time 20, which read the files 1 and 0 last.
C7_Witness ==
    /\ main = MainEnd
    /\ direction_ = Backward
    /\ i = DemoSteps
    /\ current_time_ = Lit(DemoLastFile) - DemoSteps * DemoDelta
    /\ next_data_vel_.time = 0
    /\ run_loaded

\* C8: within a run, the out-of-bound flag of a cell of the current Position
\* that is true stays true in every step, whatever the coordinates become.
C8_FlagStays ==
    [][pc # "idle" /\ current_pos_.out_of_bound # NULL =>
          /\ current_pos_'.out_of_bound # NULL
          /\ \A c \in DOMAIN current_pos_.data :
                current_pos_.out_of_bound[c] => current_pos_'.out_of_bound[c]]_vars

\* C8 witness: after an Update a flagged cell has its coordinates inside the
\* bounding box again.
C8_Witness ==
    /\ pc = "time"
    /\ i >= 1
    /\ current_pos_.out_of_bound # NULL
    /\ \E c \in DOMAIN current_pos_.data :
          /\ current_pos_.out_of_bound[c]
          /\ ~OutsideBound(current_pos_.data[c], current_pos_.bound)

\* A Position without an out-of-bound tensor reports every cell as inside.
AllInside(pos) ==
    pos.out_of_bound = NULL => \A c \in DOMAIN pos.data : ~IsOutOfBound(pos, c)

\* C9: a Position whose out-of-bound tensor was never initialised reports
\* every cell as inside; the current Position of a ContinuousFlowField is
\* such a Position after any number of Updates, and each of its Updates moves
\* every cell by velocity * signed delta.
C9_NoTrackingAllInside ==
    /\ [](AllInside(initial_pos_) /\ AllInside(current_pos_))
    /\ [](kind = Continuous => current_pos_.out_of_bound = NULL)
    /\ [][kind = Continuous /\ pc = "update" =>
             \A c \in DOMAIN current_pos_.data :
                current_pos_'.data[c] =
                   <<current_pos_.data[c][1] + Mul(current_vel_.data[c][1], SignedDelta),
                     current_pos_.data[c][2] + Mul(current_vel_.data[c][2], SignedDelta)>>]_vars

\* C9 witness: a continuous run has made two Updates and every cell has left
\* the place it started from.
C9_Witness ==
    /\ kind = Continuous
    /\ pc = "time"
    /\ i >= 1
    /\ \A c \in DOMAIN current_pos_.data :
          /\ ~IsOutOfBound(current_pos_, c)
          /\ current_pos_.data[c] # initial_pos_.data[c]

\* C10: Update(velocity, signed_delta) gives every cell the coordinates
\* old + velocity * signed_delta, for either sign of signed_delta, and leaves
\* the velocity field, the axes, the bounding box and the time stamp of the
\* Position as they were.
C10_UpdateIsEuler ==
    [][pc = "update" =>
          /\ \A c \in DOMAIN current_pos_.data : \A k \in 1 .. 2 :
                current_pos_'.data[c][k] =
                   current_pos_.data[c][k] + Mul(current_vel_.data[c][k], SignedDelta)
          /\ DOMAIN current_pos_'.data = DOMAIN current_pos_.data
          /\ current_vel_' = current_vel_
          /\ current_pos_'.xrange = current_pos_.xrange
          /\ current_pos_'.yrange = current_pos_.yrange
          /\ current_pos_'.bound = current_pos_.bound
          /\ current_pos_'.time = current_pos_.time]_vars

\* C10 witness: the second Update of a backward run of discrete data has
\* moved a cell in both coordinates.
C10_Witness ==
    /\ kind = Discrete
    /\ direction_ = Backward
    /\ pc = "time"
    /\ i = 1
    /\ \E c \in DOMAIN current_pos_.data :
          /\ current_vel_.data[c][1] # 0
          /\ current_vel_.data[c][2] # 0
          /\ current_pos_.data[c][1] # initial_pos_.data[c][1]
          /\ current_pos_.data[c][2] # initial_pos_.data[c][2]

\* interpolate() has returned.
Interpolated == call # NULL /\ call.op = "interpolate" /\ call.returned

\* C11: interpolate(x1, x1, f1, f2, xm, result) stores exactly the data of
\* f1 in result, whatever xm and f2 are, and leaves f1 and f2 as they were.
C11_EqualTimesGiveFirst ==
    /\ [](Interpolated /\ call.x1 = call.x2 => call.result.data = call.f1.data)
    /\ [][call # NULL /\ call.op = "interpolate" =>
             call'.f1 = call.f1 /\ call'.f2 = call.f2]_vars

\* C11 witness: a call with equal times, a query time away from them and
\* two different fields has returned.
C11_Witness ==
    /\ Interpolated
    /\ call.x1 = call.x2
    /\ call.xm # call.x1
    /\ call.f1.data # call.f2.data
    /\ call.result.data = call.f1.data

\* C12 (as stated): for x1 # x2 the result is f1 at xm = x1 and f2 at
\* xm = x2, component by component.
C12_EndpointsExact ==
    (Interpolated /\ call.x1 # call.x2) =>
        /\ call.xm = call.x1 => call.result.data = call.f1.data
        /\ call.xm = call.x2 => call.result.data = call.f2.data

\* Every component of both fields is exact in T together with its sums.
SmallFields ==
    \A c \in DOMAIN call.f1.data : \A k \in 1 .. 2 :
        /\ Abs(call.f1.data[c][k]) < 2 ^ (MantBits - 1)
        /\ Abs(call.f2.data[c][k]) < 2 ^ (MantBits - 1)

\* C12 (amended): for x1 # x2 every component of the result is
\* v1 + ((xm - x1) / (x2 - x1)) * (v2 - v1) as T computes it; that is f1 at
\* xm = x1, and at xm = x2 it is v1 + (v2 - v1), which is f2 when the
\* difference and the sum are exact and f2 up to their rounding otherwise.
C12_EndpointsRounded ==
    (Interpolated /\ call.x1 # call.x2) =>
        /\ \A c \in DOMAIN call.f1.data : \A k \in 1 .. 2 :
              call.result.data[c][k] =
                 Fl(call.f1.data[c][k] +
                    Fl(TDiv(TDiv((call.xm - call.x1) * Scale, call.x2 - call.x1) *
                            Fl(call.f2.data[c][k] - call.f1.data[c][k]), Scale)))
        /\ call.xm = call.x1 => call.result.data = call.f1.data
        /\ call.xm = call.x2 =>
              \A c \in DOMAIN call.f1.data : \A k \in 1 .. 2 :
                 call.result.data[c][k] =
                    Fl(call.f1.data[c][k] +
                       Fl(call.f2.data[c][k] - call.f1.data[c][k]))
        /\ (call.xm = call.x2 /\ SmallFields) => call.result.data = call.f2.data

\* C12 witness: a call at xm = x2 # x1 with small, different fields has
\* returned f2.
C12_Witness ==
    /\ Interpolated
    /\ call.x1 # call.x2
    /\ call.xm = call.x2
    /\ SmallFields
    /\ call.f1.data # call.f2.data
    /\ call.result.data = call.f2.data

\* InterpolateFrom() has returned.
GridInterpolated == call # NULL /\ call.op = "InterpolateFrom" /\ call.returned

\* C13 (as stated): interpolating onto the reference field's own grid gives
\* every cell, those of the last row and column included, the reference
\* value of that cell.
C13_OwnGridExact ==
    GridInterpolated =>
        \A c \in DOMAIN call.vel.data : call.vel.data[c] = call.ref_vel.data[c]

\* The cell lies on the last entry of an axis.
OnLastEntry(c) == c[1] = data_nx - 1 \/ c[2] = data_ny - 1

\* The rounding that (x2 - x1) * (v2 - v1) / (x2 - x1) can lose on the last
\* intervals of the two axes.
GridTolerance(xr, yr) ==
    TDiv(Scale, xr[Len(xr)] - xr[Len(xr) - 1]) +
    TDiv(Scale, yr[Len(yr)] - yr[Len(yr) - 1]) + 2

\* C13 (amended): on its own grid InterpolateFrom gives every cell that is
\* not on the last entry of an axis exactly its reference value; a cell on
\* the last row or column is evaluated at the far end of the last interval,
\* as v1 + (x2 - x1) * (v2 - v1) / (x2 - x1), and gets the reference value up
\* to the rounding of that product and quotient.
C13_OwnGridWithinRounding ==
    GridInterpolated =>
        \A c \in DOMAIN call.vel.data : \A k \in 1 .. 2 :
            /\ ~OnLastEntry(c) => call.vel.data[c][k] = call.ref_vel.data[c][k]
            /\ Abs(call.vel.data[c][k] - call.ref_vel.data[c][k])
                  <= GridTolerance(call.ref_pos.xrange, call.ref_pos.yrange)

\* C13 witness: a call on axes with whole spacings has reproduced the
\* reference data, which differ from cell to cell, in every cell.
C13_Witness ==
    /\ GridInterpolated
    /\ call.vel.data = call.ref_vel.data
    /\ call.ref_vel.data[<<0, 0>>] # call.ref_vel.data[<<data_nx - 1, data_ny - 1>>]
    /\ call.ref_pos.xrange[2] - call.ref_pos.xrange[1] = Scale

\* C14: every Calculate() divides by dt = t - t0, t the current time of the
\* flow field and t0 the time of its initial Position as they are when
\* Calculate() is called, whatever was called on the flow field since the
\* FTLE object was constructed.
C14_DtOfLastRun ==
    [][ftle # NULL /\ ftle' # ftle =>
          ftle'.dt = current_time_ - initial_pos_.time]_vars

\* The file of a ReadFromFile call opens and its header differs from the
\* shape of the field; the axes of a SetAll call do not have the lengths of
\* the Position.
HeaderMismatch ==
    /\ call # NULL
    /\ call.op = "ReadFromFile"
    /\ call.file # NULL
    /\ call.file.nx # data_nx \/ call.file.ny # data_ny
AxesMismatch ==
    /\ call # NULL
    /\ call.op = "SetAll"
    /\ Len(call.xrange) # nx \/ Len(call.yrange) # ny

\* C15: a dimension mismatch is an error that changes nothing: ReadFromFile
\* on a file whose header differs from the shape of the field throws the
\* domain error and leaves time stamp and data of the field as they were,
\* and SetAll(xrange, yrange) with an axis of the wrong length throws the
\* domain error and leaves data and axes of the Position as they were.
C15_MismatchChangesNothing ==
    [][/\ HeaderMismatch /\ ReadFromFileCall
          => call'.error = "domain_error" /\ call'.field = call.field
       /\ AxesMismatch /\ SetAllCall
          => call'.error = "domain_error" /\ call'.pos = call.pos]_vars
C15_Witness ==
    /\ HeaderMismatch
    /\ call.returned
    /\ call.error = "domain_error"
    /\ call.field.time = Lit(3)
    /\ call.file.time # Lit(3)

\* C16 as stated: before any Run(), CurrentPosition() and CurrentVelocity()
\* both throw the "not set" error instead of returning a value, for the base,
\* the discrete and the continuous flow field.
C16_BothQueriesRaise ==
    [][CurrentPositionCall \/ CurrentVelocityCall
          => call'.error = "invalid_argument"]_vars

\* C16, amended: before any Run(), CurrentVelocity() throws the "not set"
\* error for the base, the discrete and the continuous flow field, while
\* CurrentPosition() throws nothing and returns the Position the constructor
\* allocated, with the time of the last SetInitialTime().
C16_OnlyVelocityRaises ==
    [][/\ CurrentVelocityCall => call'.error = "invalid_argument"
       /\ CurrentPositionCall
             => /\ call'.error = "none"
                /\ call'.value = [NewPosition(nx, ny) EXCEPT !.time = initial_time_]]_vars
C16_Witness ==
    /\ call # NULL
    /\ call.op = "CurrentVelocity"
    /\ call.error = "invalid_argument"
    /\ pc = "idle"
    /\ kind = Discrete
    /\ initial_pos_.xrange # <<>>

\* A step of Run() before its position update.
BeforeUpdate == pc \in {"vel", "search", "load", "interp"}

\* C17: when a snapshot file that a step of a DiscreteFlowField run needs
\* does not open, the error is raised in that step before its position
\* update: the load whose file is missing ends the run, a run ends this way
\* only in a load, the current positions and current_time_ are then those
\* left by the last completed step (nothing in a step changes them before
\* its position update, and i completed steps have moved the time), and no
\* step follows the failure.
C17_MissingFileStopsRun ==
    /\ [](pc = "failed" =>
            /\ kind = Discrete
            /\ current_time_ = run_t0 + i * SignedDelta)
    /\ [][/\ (LoadPrevious /\ ~FileExists(FileName(current_data_time_)))
             => pc' = "failed"
          /\ (LoadNext /\ ~FileExists(FileName(current_data_time_ + SignedDataDelta)))
             => pc' = "failed"
          /\ pc' = "failed" => pc = "load" /\ (LoadPrevious \/ LoadNext)
          /\ BeforeUpdate =>
                /\ current_pos_' = current_pos_
                /\ current_time_' = current_time_
                /\ i' = i
          /\ pc # "failed"]_vars
C17_Witness ==
    /\ pc = "failed"
    /\ i >= 1
    /\ i < step_
    /\ current_pos_.data # initial_pos_.data
    /\ current_time_ = run_t0 + i * SignedDelta

\* C18: row-parallel Position::Update needs no synchronization: in every
\* interleaving of the workers of the rows, the coordinates and the
\* out-of-bound flags of all cells are, when Update returns, those of a
\* sequential execution; no flag set by the worker of one row is lost to a
\* flag write of the worker of another row.
C18_ParallelAsSequential ==
    (call # NULL /\ call.op = "Update" /\ call.returned) =>
        call.pos = Update(call.start, call.vel, call.delta)

\* C19: the two snapshot loads of a bracket are independent tasks that write
\* different buffers (the previous task leaves next_data_vel_ alone, the next
\* task leaves previous_data_vel_ alone, neither writes current_data_vel_);
\* in every interleaving the temporal interpolation of the step starts only
\* after both have finished (the step leaves the loading only with both
\* tasks done, and current_data_vel_ is written only after that); and the
\* buffers after the join are the files of the anchor and of the anchor plus
\* one signed interval, whichever task ran first.
C19_JoinBeforeInterpolation ==
    [][/\ LoadPrevious =>
             /\ next_data_vel_' = next_data_vel_
             /\ current_data_vel_' = current_data_vel_
       /\ LoadNext =>
             /\ previous_data_vel_' = previous_data_vel_
             /\ current_data_vel_' = current_data_vel_
       /\ (pc = "load" /\ pc' = "interp") =>
             /\ tasks = {"previous", "next"}
             /\ BuffersAtAnchor
             /\ UNCHANGED <<previous_data_vel_, next_data_vel_>>
       /\ current_data_vel_' # current_data_vel_ => pc = "interp"]_vars

\* C19 witness: in a later step the next task has finished before the
\* previous task has begun.
C19_Witness ==
    /\ pc = "load"
    /\ i >= 1
    /\ tasks = {"next"}
    /\ next_data_vel_.time = Lit(ToInt(current_data_time_ + SignedDataDelta))
    /\ previous_data_vel_.time # Lit(ToInt(current_data_time_))

\* The smaller and the larger of two times.
Min(a, b) == IF a <= b THEN a ELSE b
Max(a, b) == IF a >= b THEN a ELSE b

\* C20: SetDataTimeRange(t1, t2) takes the two end points in either order:
\* afterwards begin_data_time_ = min(t1, t2) and end_data_time_ = max(t1, t2)
\* when the direction is Forward, and begin_data_time_ = max(t1, t2) and
\* end_data_time_ = min(t1, t2) when it is Backward, so that (t1, t2) and
\* (t2, t1) leave the same state.
C20_EitherOrder ==
    [][\A r \in DataTimeRanges :
          SetDataTimeRange(r[1], r[2]) =>
              /\ direction_ = Forward =>
                    /\ begin_data_time_' = Min(r[1], r[2])
                    /\ end_data_time_' = Max(r[1], r[2])
              /\ direction_ = Backward =>
                    /\ begin_data_time_' = Max(r[1], r[2])
                    /\ end_data_time_' = Min(r[1], r[2])]_vars

\* What a load task leaves in its buffer when it asks for the file of that
\* name at buffer time t: the file's time stamp and data, or the throw with
\* only the time t stored.
ReadsNamed(name, t, before, after) ==
    IF FileExists(name)
    THEN /\ after = [before EXCEPT !.time = FileContent(name).time,
                                   !.data = FileContent(name).data]
         /\ pc' = "load"
    ELSE /\ after = [before EXCEPT !.time = t]
         /\ pc' = "failed"

\* C21: the snapshot file requested for a data time t is named prefix +
\* integer(t) + suffix, integer(t) being t truncated; the suffix is ".txt"
\* unless set otherwise; and the time is the one given to the buffer just
\* before the read: the anchor for the previous buffer, the anchor plus one
\* signed interval for the next buffer.
C21_FileNamedByTruncatedTime ==
    /\ vel_file_name_suffix_ = ".txt"
    /\ [][/\ LoadPrevious =>
                ReadsNamed(<<vel_file_name_prefix_, TDiv(current_data_time_, Scale),
                             vel_file_name_suffix_>>,
                           current_data_time_,
                           previous_data_vel_, previous_data_vel_')
          /\ LoadNext =>
                ReadsNamed(<<vel_file_name_prefix_,
                             TDiv(current_data_time_ + SignedDataDelta, Scale),
                             vel_file_name_suffix_>>,
                           current_data_time_ + SignedDataDelta,
                           next_data_vel_, next_data_vel_')]_vars

\* C21 witness: the next task has read the file of a time that is not whole,
\* the file named by the integer below it.
C21_Witness ==
    /\ pc = "load"
    /\ "next" \in tasks
    /\ current_data_time_ + SignedDataDelta > Scale
    /\ ~Whole(current_data_time_ + SignedDataDelta)
    /\ next_data_vel_.time = Lit(TDiv(current_data_time_ + SignedDataDelta, Scale))
    /\ next_data_vel_.data = FileVel(TDiv(current_data_time_ + SignedDataDelta, Scale))

\* C22: every Run() starts with current_time_ equal to initial_time_, so that
\* the first step of every Run() of a DiscreteFlowField does the run-start
\* bracket initialization, in a second and later Run() of the same object as
\* well, whether or not SetInitialTime was called in between.
C22_EveryRunStartsAtInitialTime ==
    [][/\ RunBegin => current_time_ = initial_time_
       /\ (kind = Discrete /\ pc = "vel" /\ i = 0) => BracketInit]_vars

\* C23: every Run() starts from the fixed initial Position: no step of Run()
\* changes the initial Position, and when Run() has copied it the current
\* Position has its data, axes and time stamp; for a DiscreteFlowField all
\* out-of-bound flags are then false and the current Velocity is a new one,
\* so that nothing of the positions or flags of an earlier run is left.
C23_RunStartsFromInitialPosition ==
    [][/\ RunBegin =>
             /\ current_pos_'.data = initial_pos_.data
             /\ current_pos_'.xrange = initial_pos_.xrange
             /\ current_pos_'.yrange = initial_pos_.yrange
             /\ current_pos_'.time = initial_pos_.time
             /\ kind = Discrete =>
                   /\ current_pos_'.out_of_bound = FalseTensor(nx, ny)
                   /\ current_vel_' = NewVelocity(nx, ny)
       /\ (RunBegin \/ pc # "idle") => initial_pos_' = initial_pos_]_vars

\* C23 witness: a second Run(), of no steps, has returned after a first one
\* that moved the particles and flagged one: the current Position is the
\* initial one again and no flag is set.
C23_Witness ==
    /\ call # NULL
    /\ call.op = "Run"
    /\ pc = "done"
    /\ i = 0
    /\ step_ = 0
    /\ kind = Discrete
    /\ current_time_ # initial_time_
    /\ current_pos_.data = initial_pos_.data
    /\ current_pos_.out_of_bound = FalseTensor(nx, ny)

\* C24: within every step of Run() the order is fixed: the velocity is made
\* from the positions and the current time of before the step, then the
\* positions are updated with it, then the time advances.  In a
\* ContinuousFlowField the velocity of a cell is Func at the cell's position
\* and the time before the step; in a DiscreteFlowField the bracket check
\* (with its loads), the temporal and the spatial interpolation come once
\* each per step and in that order.
C24_StepOrder ==
    [][/\ (pc = "vel" /\ kind = Continuous) =>
             /\ pc' = "update"
             /\ current_vel_'.data =
                  [c \in Cells(nx, ny) |-> Func(current_pos_.data[c], current_time_)]
             /\ UNCHANGED <<current_pos_, current_time_, i>>
       /\ (pc = "vel" /\ kind = Discrete) =>
             /\ pc' \in {"search", "load", "interp"}
             /\ BracketInit \/ BracketAdvance \/ BracketKeep
             /\ UNCHANGED <<current_pos_, current_time_, current_vel_,
                            current_data_vel_, i>>
       /\ pc \in {"search", "load"} =>
             /\ pc' \in {"search", "load", "interp", "failed"}
             /\ (pc = "load" => pc' # "search")
             /\ UNCHANGED <<current_pos_, current_time_, current_vel_,
                            current_data_vel_, i>>
       /\ pc = "interp" =>
             /\ pc' = "update"
             /\ current_data_vel_'.data =
                  interpolateField(previous_data_vel_.time, next_data_vel_.time,
                                   previous_data_vel_, next_data_vel_, current_time_)
             /\ current_vel_'.data =
                  InterpolateFrom(current_vel_, current_pos_,
                                  current_data_vel_', data_pos_)
             /\ UNCHANGED <<current_pos_, current_time_, previous_data_vel_,
                            next_data_vel_, current_data_time_, i>>
       /\ pc = "update" =>
             /\ pc' = "time"
             /\ current_pos_'.data =
                  [c \in Cells(nx, ny) |->
                      Displaced(current_pos_.data[c], current_vel_.data[c],
                                SignedDelta)]
             /\ UNCHANGED <<current_time_, current_vel_, current_data_vel_, i>>
       /\ pc = "time" =>
             /\ pc' \in {"vel", "done"}
             /\ i' = i + 1
             /\ current_time_' = NextTime(current_time_, direction_, delta_)
             /\ current_pos_'.data = current_pos_.data
             /\ current_vel_'.data = current_vel_.data]_vars

\* C24 witness: a later step of a discrete run that has loaded its bracket,
\* interpolated and moved the particles, and is about to advance the time.
C24_Witness ==
    /\ kind = Discrete
    /\ pc = "time"
    /\ i >= 1
    /\ run_loaded
    /\ current_pos_.data # initial_pos_.data
    /\ current_vel_.data # ZeroTensor(nx, ny)

\* C25: Run() with step count N, a positive delta and a positive data
\* interval ends after exactly N steps, whatever the direction, the
\* initial time and the data time range, unless a requested file is missing;
\* in particular the search for the anchor at the start of a run ends.
C25_RunTerminates ==
    /\ [](pc = "done" => i = step_)
    /\ (pc = "search") ~> (pc # "search")
    /\ (pc \notin {"idle", "done", "failed"}) ~> (pc \in {"done", "failed"})

\* C26: the pair of indices InterpolateFrom chooses is always in range: for
\* every target and every strictly increasing axis of n >= 2 entries,
\* 0 <= i_pre and i_next = i_pre + 1 <= n - 1; a target from axis[0] up to
\* but not including axis[n-1] lies in [axis[i_pre], axis[i_next]); a target
\* below axis[0] gets (0, 1) and one at or above axis[n-1] gets (n-2, n-1).
C26_BracketPairInRange ==
    (call # NULL /\ call.op = "bracket" /\ call.returned) =>
        LET n == Len(call.axis)
            t == call.target
        IN  /\ 0 <= call.i_pre
            /\ call.i_next = call.i_pre + 1
            /\ call.i_next <= n - 1
            /\ (call.axis[1] <= t /\ t < call.axis[n]) =>
                  /\ call.axis[call.i_pre + 1] <= t
                  /\ t < call.axis[call.i_next + 1]
            /\ t < call.axis[1] => (call.i_pre = 0 /\ call.i_next = 1)
            /\ t >= call.axis[n] => (call.i_pre = n - 2 /\ call.i_next = n - 1)

\* C26 witness: a target above the last entry of an axis of more than two
\* entries has been given the last pair.
C26_Witness ==
    /\ call # NULL
    /\ call.op = "bracket"
    /\ call.returned
    /\ Len(call.axis) > 2
    /\ call.target > call.axis[Len(call.axis)]
    /\ call.i_next = Len(call.axis) - 1

\* C27: InterpolateFrom leaves the velocity of every cell that is flagged
\* out-of-bound as it was before the call and gives every other cell the
\* value interpolated from the reference Velocity; the reference Velocity
\* (here the one the temporal interpolation has just made) and the Positions
\* are not changed by it.
C27_FlaggedCellsKept ==
    [][Interpolate =>
         /\ \A c \in Cells(nx, ny) :
               IF IsOutOfBound(current_pos_, c)
               THEN current_vel_'.data[c] = current_vel_.data[c]
               ELSE current_vel_'.data[c] =
                      Bilinear(current_data_vel_'.data, data_pos_.xrange,
                               data_pos_.yrange, current_pos_.data[c])
         /\ current_data_vel_'.data =
              interpolateField(previous_data_vel_.time, next_data_vel_.time,
                               previous_data_vel_, next_data_vel_, current_time_)
         /\ current_data_vel_'.time = current_data_vel_.time
         /\ UNCHANGED <<current_pos_, data_pos_, initial_pos_>>]_vars

\* C27 witness: after an interpolation a flagged cell holds a velocity other
\* than the one its position would be given, next to a cell that is not
\* flagged.
C27_Witness ==
    /\ kind = Discrete
    /\ pc = "update"
    /\ \E c \in Cells(nx, ny) :
          /\ IsOutOfBound(current_pos_, c)
          /\ current_vel_.data[c] #
                Bilinear(current_data_vel_.data, data_pos_.xrange,
                         data_pos_.yrange, current_pos_.data[c])
    /\ \E c \in Cells(nx, ny) : ~IsOutOfBound(current_pos_, c)

\* The bounding box CopyInitialPositionToCurrentPosition takes from the data
\* grid: its first and its last grid point.
DataGridBox ==
    <<data_pos_.data[<<0, 0>>][1], data_pos_.data[<<data_nx - 1, data_ny - 1>>][1],
      data_pos_.data[<<0, 0>>][2], data_pos_.data[<<data_nx - 1, data_ny - 1>>][2]>>

\* C28: with out-of-bound tracking, an Update turns the flag of a cell from
\* false to true exactly when the new coordinates of the cell are outside
\* the bounding box fixed at the start of the run (the first and last grid
\* point of the data grid), strictly: a particle on the boundary is not
\* flagged.  The initial positions are not tested (all flags are false when
\* the run starts) and no step of the run changes the box.
C28_FlaggedExactlyWhenOutside ==
    [][/\ (kind = Discrete /\ RunBegin) =>
             /\ current_pos_'.bound = DataGridBox
             /\ \A c \in Cells(nx, ny) : ~current_pos_'.out_of_bound[c]
       /\ (kind = Discrete /\ pc \notin {"idle", "done", "failed"}) =>
             current_pos_'.bound = current_pos_.bound
       /\ (kind = Discrete /\ pc = "update") =>
             \A c \in Cells(nx, ny) :
                 ~current_pos_.out_of_bound[c] =>
                     (current_pos_'.out_of_bound[c] <=>
                        OutsideBound(current_pos_'.data[c], current_pos_.bound))
       /\ (kind = Discrete /\ pc \notin {"idle", "update"}) =>
             current_pos_'.out_of_bound = current_pos_.out_of_bound]_vars

\* C29: DiscreteFlowField::SetDirection keeps the configured data time range:
\* it never loses an end point (it only exchanges begin and end), so that
\* SetDirection(d) called again leaves begin and end as they are, and
\* SetDirection(Backward); SetDirection(Forward) after SetDataTimeRange(a, b)
\* with a < b gives begin = a and end = b again.
C29_SetDirectionKeepsRange ==
    [][(kind = Discrete /\ \E d \in {Forward, Backward} : SetDirection(d)) =>
          /\ {begin_data_time_', end_data_time_'} = {begin_data_time_, end_data_time_}
          /\ direction_' = direction_ =>
                UNCHANGED <<begin_data_time_, end_data_time_>>
          /\ direction_' # direction_ =>
                /\ begin_data_time_' = end_data_time_
                /\ end_data_time_' = begin_data_time_]_vars

\* C30: in a run of a DiscreteFlowField, from the moment the cell of a
\* particle is flagged out-of-bound its velocity stays what it was when the
\* flag was set (the last one interpolated), and every later Update still
\* moves the particle by that velocity times the signed delta, which also
\* stays the same: the particle goes on along a straight line.
C30_FlaggedCellMovesStraight ==
    [][(kind = Discrete /\ pc \notin {"idle", "done", "failed"}) =>
          /\ UNCHANGED <<delta_, direction_>>
          /\ pc = "update" => current_vel_' = current_vel_
          /\ \A c \in Cells(nx, ny) :
                IsOutOfBound(current_pos_, c) =>
                    /\ current_vel_'.data[c] = current_vel_.data[c]
                    /\ current_pos_'.data[c] =
                         IF pc = "update"
                         THEN Displaced(current_pos_.data[c], current_vel_.data[c],
                                        SignedDelta)
                         ELSE current_pos_.data[c]]_vars

\* C30 witness: an Update has just moved a particle that was outside the
\* box, hence flagged, before this Update already, by a velocity that is not
\* zero.
C30_Witness ==
    /\ kind = Discrete
    /\ pc = "time"
    /\ i >= 1
    /\ \E c \in Cells(nx, ny) :
          /\ IsOutOfBound(current_pos_, c)
          /\ current_vel_.data[c] # <<0, 0>>
          /\ Displaced(current_pos_.data[c], current_vel_.data[c], 0 - SignedDelta)
                # current_pos_.data[c]
          /\ OutsideBound(Displaced(current_pos_.data[c], current_vel_.data[c],
                                    0 - SignedDelta),
                          current_pos_.bound)

====
